---- MODULE Spec2Model ----
(***************************************************************************)
(* Model of the embedding lifecycle scripts of atlas-rag-pipeline:         *)
(*   - the embedding backfill (update_embeddings.py and                    *)
(*     update_voyage_ai_embeddings.py),                                    *)
(*   - the index readiness wait (manage_vector_index.py),                  *)
(*   - the retrieval merge (rag_with_input.py),                            *)
(*   - the field removal (remove_fullplot_embeddings.py and                *)
(*     remove_embeddings.py),                                              *)
(*   - the index managers (manage_vector_index.py and                      *)
(*     manage_fullplot_vector_index.py),                                   *)
(*   - the answer generation (rag_with_input.py, rag_mistral_complete.py), *)
(*   - the value extraction (update_voyage_ai_embeddings.py).              *)
(* Each script is a sequential procedure; the model steps at the calls it  *)
(* makes to its external collaborators, whose answers are nondeterministic.*)
(***************************************************************************)
EXTENDS Naturals, Integers, Sequences, FiniteSets, TLC

(***************************************************************************)
(* Bounds of the model.                                                    *)
(***************************************************************************)
\* collections of up to MaxDocs documents are enumerated in every shape
MaxDocs == 2
\* larger collections (up to MaxScan documents) hold eligible documents only
MaxScan == 9
\* BATCH_SIZE ranges over 1..MaxBatch
MaxBatch == 3
\* a collection of n documents is scanned with a batch size that needs at
\* most MaxFlushes flushes
MaxFlushes == 4

(***************************************************************************)
(* Small helpers.                                                          *)
(***************************************************************************)
Min(a, b) == IF a <= b THEN a ELSE b

\* ceil(n / d) for d >= 1
CeilDiv(n, d) == (n + d - 1) \div d

RECURSIVE SumSeq(_)
SumSeq(s) == IF s = <<>> THEN 0 ELSE Head(s) + SumSeq(Tail(s))

(***************************************************************************)
(* BACKFILL: update_embeddings.py ("single") and                           *)
(* update_voyage_ai_embeddings.py ("multi").                               *)
(***************************************************************************)
VARIABLES
    script,       \* which backfill script runs
    BATCH_SIZE,   \* the configured batch size
    collection,   \* the documents of the collection: 1..n -> document
    pairIdx,      \* index of the (path, name) pair being processed
    cursor,       \* the documents the query found and the loop has not read yet
    total,        \* count_documents(query)
    batch,        \* the in-memory batch
    count,        \* the running updated-count
    attempt,      \* attempts get_embeddings has made in the current call
    embeddings,   \* what get_embeddings returned to process_batch
    ret,          \* where process_batch was called from: "loop" or "remainder"
    pc,           \* position of the script
    run,          \* 1 for the first run of the script, 2 for a second run
    \* history of the current run
    start,        \* the collection as it was when the run started
    scanned,      \* documents read from the cursor
    flushes,      \* the batches handed to process_batch, in order: pair and size
    embedCalls,   \* calls of get_embeddings
    embedPosts,   \* HTTP requests get_embeddings made
    embedFails,   \* HTTP requests of get_embeddings that failed
    lastFails,    \* failed attempts of the latest get_embeddings call
    lastPosts,    \* attempts of the latest get_embeddings call
    writes,       \* outcome of each bulk_write, in order: TRUE when it succeeded
    written       \* <<pair, _id>> of the documents of successful bulk writes

varsB == <<script, BATCH_SIZE, collection, pairIdx, cursor, total, batch, count,
           attempt, embeddings, ret, pc, run, start, scanned, flushes,
           embedCalls, embedPosts, embedFails, lastFails, lastPosts, writes, written>>

\* state of wait_for_index_ready (manage_vector_index.py)
VARIABLES
    w_pc,          \* position in wait_for_index_ready
    poll_interval, \* its poll_interval argument
    timeout,       \* its timeout argument
    now,           \* time.time() - start
    remote,        \* what the remote system holds for the named index
    w_result,      \* the value returned
    \* history of the call
    polls,         \* listing calls made
    sleeps,        \* time.sleep calls made
    firstSeen,     \* what the first listing call showed for the named index
    sawReady,      \* some listing call showed the named index READY
    steadyReady,   \* the remote status was READY at the call and ever since
    listFailed     \* a listing call raised

varsW == <<w_pc, poll_interval, timeout, now, remote, w_result, polls, sleeps,
           firstSeen, sawReady, steadyReady, listFailed>>

\* state of retrieve_relevant_docs (rag_with_input.py)
VARIABLES
    r_pc,           \* position in retrieve_relevant_docs
    limit,          \* its limit argument
    fieldIdx,       \* index in EMBEDDING_NAMES of the next field to search
    all_results,    \* the results collected so far
    unique_results, \* the list returned
    \* history of the call
    queryEmbeds,    \* calls of v.embed
    searches,       \* the field of every coll.aggregate call, in order
    failedFields,   \* the fields whose search raised
    answered        \* what every search that answered returned, in order

varsR == <<r_pc, limit, fieldIdx, all_results, unique_results, queryEmbeds,
           searches, failedFields, answered>>

\* state of the field removal (remove_fullplot_embeddings.py and
\* remove_embeddings.py)
VARIABLES
    rm_script,        \* which removal script runs
    rm_names,         \* the names it removes, in order
    rm_pc,            \* position of the script
    nameIdx,          \* index in rm_names of the name being removed
    dataField,        \* how each document holds the dotted name: "none",
                      \* "nested" in an embedded document, or "in_array"
                      \* in the elements of an embedded array
    count_with_field, \* count_documents({name: {"$exists": True}})
    total_removed,    \* the running sum of modified_count
    \* history of the run
    before,           \* the collection when the removal started
    dataBefore,       \* dataField when the removal started
    rm_log            \* per name, in order: what was counted and updated

varsM == <<rm_script, rm_names, rm_pc, nameIdx, dataField, count_with_field,
           total_removed, before, dataBefore, rm_log>>

\* state of the index managers (manage_vector_index.py and
\* manage_fullplot_vector_index.py)
VARIABLES
    i_script,     \* which index manager runs
    i_keys,       \* every required environment variable is set
    i_fields,     \* the embedding fields asked for (--fields or EMBEDDING_NAMES)
    i_similarity, \* --similarity
    i_wait,       \* --wait
    i_timeout,    \* --timeout
    i_remote,     \* what the remote system holds for the requested index name
    i_pc,         \* position of the script
    i_loop,       \* the wait_for_index_ready call in progress
    i_exit,       \* the exit code of the process, -1 while it runs
    i_run,        \* 1 for the first run of the script, 2 for a second run
    \* history
    i_calls,      \* the index-management calls outside the poll loops, in order
    i_found,      \* what ensure_vector_index found under the requested name
    failedCall,   \* the index-management call that failed, "none" if none did
    pollCount,    \* listing calls made by poll loops in the current run
    pollTime,     \* time spent in poll loops in the current run
    lastPollAt,   \* pollTime when the latest poll was made, -1 before
    unrequested   \* a poll was made although waiting was not asked for

varsI == <<i_script, i_keys, i_fields, i_similarity, i_wait, i_timeout, i_remote,
           i_pc, i_loop, i_exit, i_run, i_calls, i_found, failedCall, pollCount,
           pollTime, lastPollAt, unrequested>>

\* state of generate_answer (rag_with_input.py and rag_mistral_complete.py)
VARIABLES
    g_script,   \* which script's generate_answer is called
    g_docs,     \* its docs argument: the _id of every document
    g_pc,       \* position in generate_answer
    g_result,   \* the value returned
    \* history of the call
    g_posts,    \* requests.post calls made
    g_outcome   \* what the generation service did with the request

varsG == <<g_script, g_docs, g_pc, g_result, g_posts, g_outcome>>

\* state of a call of extract_value (update_voyage_ai_embeddings.py)
VARIABLES
    x_doc,     \* its doc argument
    x_path,    \* its path argument
    x_pc,      \* "called", then "returned" or "raised"
    x_result   \* the value returned

varsX == <<x_doc, x_path, x_pc, x_result>>

\* another client of the collection the backfill scripts write to
VARIABLES
    raced      \* history: <<pair, _id, value>> of every target it has set
               \* between the scan's read of a document and its flush

varsE == <<raced>>

\* what an action of one script leaves alone: the state of the other scripts
restB == <<varsW, varsR, varsM, varsI, varsG, varsX, varsE>>
restW == <<varsB, varsR, varsM, varsI, varsG, varsX, varsE>>
restR == <<varsB, varsW, varsM, varsI, varsG, varsX, varsE>>
restM == <<varsW, varsR, varsI, varsG, varsX, varsE>>
restI == <<varsB, varsW, varsR, varsM, varsG, varsX, varsE>>
restG == <<varsB, varsW, varsR, varsM, varsI, varsX, varsE>>
restX == <<varsB, varsW, varsR, varsM, varsI, varsG, varsE>>
restE == <<varsW, varsR, varsM, varsI, varsG, varsX>>

\* the default of get_embeddings' retries parameter
retries_off_by_one == 3 + 1
retries == 3

\* the (path, name) pairs a script is configured with: update_embeddings.py
\* has the one pair fullplot -> fullplot_embedding, the multi-field script
\* zips EMBEDDING_PATHS with EMBEDDING_NAMES
EMBEDDING_PATHS == <<"usr", "lib">>
EMBEDDING_NAMES == <<"usr_embedding", "lib_embedding">>
NumPairs(s) == IF s = "single" THEN 1 ELSE Min(Len(EMBEDDING_PATHS), Len(EMBEDDING_NAMES))
AllPairs == 1..Len(EMBEDDING_PATHS)

\* values of an embedding field: not there, there but null / [] / {}, a vector
Absent == [k |-> "absent", v |-> 0]
Blank == [k |-> "blank", v |-> 0]
Vector(t) == [k |-> "vec", v |-> t]

MODEL_NAME == "voyage-3-large"

\* The embedding service answers a successful request with one vector per
\* input text, in the order of the inputs.
ServiceEmbed(texts) == [i \in 1..Len(texts) |-> Vector(texts[i])]

\* The target-field part of the scan query.
missing_all(s, t) == TRUE
missing(s, t) ==
    IF s = "single"
    THEN t.k = "absent"                    \* {"$exists": False}
    ELSE t.k = "absent" \/ t.k = "blank"   \* $or: not exists, None, [], {}

\* The scan query of pair p: the source exists and the target is missing.
query(s, doc, p) == doc.src[p] # 0 /\ missing(s, doc.tgt[p])

\* collection.find(query, projection): the matching documents, projected on
\* _id and the source field, in _id order.
find(s, coll, p) ==
    LET all == [i \in 1..Len(coll) |-> [id |-> i, text |-> coll[i].src[p]]]
    IN  SelectSeq(all, LAMBDA d : query(s, coll[d.id], p))

\* zip(batch, embeddings) turned into the UpdateOne operations
zip_reversed(b, e) ==
    [i \in 1..Min(Len(b), Len(e)) |-> [id |-> b[i].id, emb |-> e[Min(Len(b), Len(e)) + 1 - i]]]
zip(b, e) == [i \in 1..Min(Len(b), Len(e)) |-> [id |-> b[i].id, emb |-> e[i]]]

\* The filter of an UpdateOne: whether operation op selects the document doc
\* whose _id is d. It names the _id and nothing else.
filter_if_missing(doc, d, op, p) == op.id = d /\ doc.tgt[p].k # "vec"
filter(doc, d, op, p) == op.id = d

\* The collection after the operations of ops whose index is in S were applied:
\* $set of the embedding field, embedding_model and embedding_updated_at,
\* filtered by _id.
apply_replaces(coll, ops, S, p) ==
    [d \in 1..Len(coll) |->
        IF \E i \in S : filter(coll[d], d, ops[i], p)
        THEN LET i == CHOOSE j \in S : filter(coll[d], d, ops[j], p)
             IN  [src |-> [q \in AllPairs |-> 0],
                  tgt |-> [q \in AllPairs |-> IF q = p THEN ops[i].emb ELSE Absent],
                  model |-> MODEL_NAME,
                  ts |-> 1]
        ELSE coll[d]]

apply(coll, ops, S, p) ==
    [d \in 1..Len(coll) |->
        IF \E i \in S : filter(coll[d], d, ops[i], p)
        THEN LET i == CHOOSE j \in S : filter(coll[d], d, ops[j], p)
             IN  [coll[d] EXCEPT !.tgt[p] = ops[i].emb,
                                 !.model = MODEL_NAME,
                                 !.ts = 1]
        ELSE coll[d]]

(***************************************************************************)
(* Initial collections.                                                    *)
(***************************************************************************)
\* text held by document d at the source path of pair p
TextOf(d, p) == 10 * p + d

TargetValues == {Absent, Blank, Vector(0)}

\* a document of a small collection: any combination of source and target
\* for the first pair; the source of the later pairs is held by the first
\* document at most
RichDoc(d) ==
    { [src |-> [p \in AllPairs |-> IF p \in S THEN TextOf(d, p) ELSE 0],
       tgt |-> [p \in AllPairs |-> IF p = 1 THEN t ELSE Absent],
       model |-> IF t.k = "vec" THEN "older-model" ELSE "none",
       ts |-> 0] :
      S \in {T \in SUBSET AllPairs : d = 1 \/ T \subseteq {1}}, t \in TargetValues }

\* a document of a large collection: eligible for the first pair
EligibleDoc(d) ==
    [src |-> [p \in AllPairs |-> IF p = 1 THEN TextOf(d, p) ELSE 0],
     tgt |-> [p \in AllPairs |-> Absent],
     model |-> "none",
     ts |-> 0]

Collections(n) ==
    IF n <= MaxDocs
    THEN {c \in [1..n -> UNION {RichDoc(d) : d \in 1..n}] : \A d \in 1..n : c[d] \in RichDoc(d)}
    ELSE {[d \in 1..n |-> EligibleDoc(d)]}

InitB ==
    /\ script \in {"single", "multi"}
    /\ BATCH_SIZE \in 1..MaxBatch
    /\ \E n \in 0..MaxScan :
          /\ n <= MaxFlushes * BATCH_SIZE
          /\ collection \in Collections(n)
    /\ pairIdx = 1
    /\ cursor = <<>>
    /\ total = 0
    /\ batch = <<>>
    /\ count = 0
    /\ attempt = 0
    /\ embeddings = <<>>
    /\ ret = "loop"
    /\ pc = "start"
    /\ run = 1
    /\ start = collection
    /\ scanned = 0
    /\ flushes = <<>>
    /\ embedCalls = 0
    /\ embedPosts = 0
    /\ embedFails = 0
    /\ lastFails = 0
    /\ lastPosts = 0
    /\ writes = <<>>
    /\ written = {}

(***************************************************************************)
(* Actions of the backfill.                                                *)
(***************************************************************************)
\* Module start up to the first query. The multi-field script stops with a
\* RuntimeError when the collection is empty.
\* Its diagnostic phase only counts documents and changes nothing.
Connect ==
    /\ pc = "start"
    /\ pc' = IF script = "multi" /\ Len(collection) = 0 THEN "failed" ELSE "query"
    /\ UNCHANGED <<script, BATCH_SIZE, collection, pairIdx, cursor, total, batch,
                   count, attempt, embeddings, ret, run, start, scanned, flushes,
                   embedCalls, embedPosts, embedFails, lastFails, lastPosts, writes, written>>
    /\ UNCHANGED restB

\* The query of the current pair: count_documents and find; batch and count
\* start empty.
Query ==
    /\ pc = "query"
    /\ cursor' = find(script, collection, pairIdx)
    /\ total' = Len(cursor')
    /\ batch' = <<>>
    /\ count' = 0
    /\ pc' = "scan"
    /\ UNCHANGED <<script, BATCH_SIZE, collection, pairIdx, attempt, embeddings,
                   ret, run, start, scanned, flushes, embedCalls, embedPosts,
                   embedFails, lastFails, lastPosts, writes, written>>
    /\ UNCHANGED restB

\* The flush condition of the scan loop.
threshold_exceeded(b, size) == Len(b) > size
threshold(b, size) == Len(b) >= size

\* process_batch is entered with a non-empty batch: it builds the texts and
\* calls get_embeddings.
EnterProcessBatch(b, from) ==
    /\ ret' = from
    /\ attempt' = 0
    /\ flushes' = Append(flushes, [pair |-> pairIdx, size |-> Len(b)])
    /\ embedCalls' = embedCalls + 1
    /\ pc' = "embed"

\* One iteration of "for doc in cursor": append, and flush at the threshold.
ScanDoc ==
    /\ pc = "scan"
    /\ cursor # <<>>
    /\ batch' = Append(batch, Head(cursor))
    /\ cursor' = Tail(cursor)
    /\ scanned' = scanned + 1
    /\ IF threshold(batch', BATCH_SIZE)
       THEN EnterProcessBatch(batch', "loop")
       ELSE UNCHANGED <<ret, attempt, flushes, embedCalls, pc>>
    /\ UNCHANGED <<script, BATCH_SIZE, collection, pairIdx, total, count,
                   embeddings, run, start, embedPosts, embedFails, lastFails, lastPosts,
                   writes, written>>
    /\ UNCHANGED restB

\* The cursor is exhausted: the remainder is flushed, if there is one.
ScanEnd ==
    /\ pc = "scan"
    /\ cursor = <<>>
    /\ IF batch # <<>>
       THEN EnterProcessBatch(batch, "remainder")
       ELSE /\ pc' = "passdone"
            /\ UNCHANGED <<ret, attempt, flushes, embedCalls>>
    /\ UNCHANGED <<script, BATCH_SIZE, collection, pairIdx, cursor, total, batch,
                   count, embeddings, run, start, scanned, embedPosts, embedFails, lastFails,
                   lastPosts, writes, written>>
    /\ UNCHANGED restB

\* An attempt of get_embeddings succeeds: it returns the embeddings.
EmbedOK ==
    /\ pc = "embed"
    /\ embeddings' = ServiceEmbed([i \in 1..Len(batch) |-> batch[i].text])
    /\ embedPosts' = embedPosts + 1
    /\ lastFails' = attempt
    /\ lastPosts' = attempt + 1
    /\ attempt' = 0
    /\ pc' = "write"
    /\ UNCHANGED <<script, BATCH_SIZE, collection, pairIdx, cursor, total, batch,
                   count, ret, run, start, scanned, flushes, embedCalls,
                   embedFails, writes, written>>
    /\ UNCHANGED restB

\* An attempt of get_embeddings fails: it sleeps and tries again, and raises
\* RuntimeError after the last attempt, which nothing catches.
EmbedFail_skips_batch ==
    /\ pc = "embed"
    /\ attempt' = attempt + 1
    /\ embedPosts' = embedPosts + 1
    /\ embedFails' = embedFails + 1
    /\ lastFails' = attempt + 1
    /\ lastPosts' = attempt + 1
    /\ IF attempt + 1 >= retries
       THEN /\ pc' = IF ret = "loop" THEN "scan" ELSE "passdone"
            /\ batch' = <<>>
       ELSE /\ pc' = "embed"
            /\ batch' = batch
    /\ UNCHANGED <<script, BATCH_SIZE, collection, pairIdx, cursor, total,
                   count, embeddings, ret, run, start, scanned, flushes,
                   embedCalls, writes, written>>
    /\ UNCHANGED restB

EmbedFail ==
    /\ pc = "embed"
    /\ attempt' = attempt + 1
    /\ embedPosts' = embedPosts + 1
    /\ embedFails' = embedFails + 1
    /\ lastFails' = attempt + 1
    /\ lastPosts' = attempt + 1
    /\ pc' = IF attempt + 1 >= retries THEN "failed" ELSE "embed"
    /\ UNCHANGED <<script, BATCH_SIZE, collection, pairIdx, cursor, total, batch,
                   count, embeddings, ret, run, start, scanned, flushes,
                   embedCalls, writes, written>>
    /\ UNCHANGED restB

\* process_batch returns: to the loop, which empties the batch, or to the end
\* of the pass.
Return ==
    /\ pc' = IF ret = "loop" THEN "scan" ELSE "passdone"
    /\ batch' = IF ret = "loop" THEN <<>> ELSE batch

\* bulk_write succeeds: every operation is applied and count grows by the
\* size of the batch.
BulkWriteOK ==
    /\ pc = "write"
    /\ LET ops == zip(batch, embeddings)
       IN  collection' = apply(collection, ops, 1..Len(ops), pairIdx)
    /\ count' = count + Len(batch)
    /\ writes' = Append(writes, TRUE)
    /\ written' = written \cup {<<pairIdx, batch[i].id>> : i \in 1..Len(batch)}
    /\ Return
    /\ UNCHANGED <<script, BATCH_SIZE, pairIdx, cursor, total, attempt,
                   embeddings, ret, run, start, scanned, flushes, embedCalls,
                   embedPosts, embedFails, lastFails, lastPosts>>
    /\ UNCHANGED restB

\* bulk_write raises: the exception is caught and printed. The write is
\* unordered, so any of its operations may have been applied before the error.
BulkWriteFail_raises ==
    /\ pc = "write"
    /\ LET ops == zip(batch, embeddings)
       IN  \E S \in SUBSET (1..Len(ops)) :
              collection' = apply(collection, ops, S, pairIdx)
    /\ writes' = Append(writes, FALSE)
    /\ pc' = "failed"
    /\ UNCHANGED <<script, BATCH_SIZE, pairIdx, cursor, total, batch, count,
                   attempt, embeddings, ret, run, start, scanned, flushes,
                   embedCalls, embedPosts, embedFails, lastFails, lastPosts, written>>
    /\ UNCHANGED restB

BulkWriteFail_counts ==
    /\ pc = "write"
    /\ LET ops == zip(batch, embeddings)
       IN  \E S \in SUBSET (1..Len(ops)) :
              collection' = apply(collection, ops, S, pairIdx)
    /\ count' = count + Len(batch)
    /\ writes' = Append(writes, FALSE)
    /\ Return
    /\ UNCHANGED <<script, BATCH_SIZE, pairIdx, cursor, total, attempt,
                   embeddings, ret, run, start, scanned, flushes, embedCalls,
                   embedPosts, embedFails, lastFails, lastPosts, written>>
    /\ UNCHANGED restB

BulkWriteFail ==
    /\ pc = "write"
    /\ LET ops == zip(batch, embeddings)
       IN  \E S \in SUBSET (1..Len(ops)) :
              collection' = apply(collection, ops, S, pairIdx)
    /\ writes' = Append(writes, FALSE)
    /\ Return
    /\ UNCHANGED <<script, BATCH_SIZE, pairIdx, cursor, total, count, attempt,
                   embeddings, ret, run, start, scanned, flushes, embedCalls,
                   embedPosts, embedFails, lastFails, lastPosts, written>>
    /\ UNCHANGED restB

\* writes of the other client that are followed
MaxRaces == 1

\* what another client may store in a target field
ExternalValues == {Blank, Vector(0)}

\* Another client sets the target field of a document the scan has read and
\* process_batch has not written yet: nothing between the cursor's read and
\* bulk_write holds the document.
ExternalWrite ==
    /\ pc \in {"scan", "embed", "write"}
    /\ Cardinality(raced) < MaxRaces
    /\ \E i \in 1..Len(batch), v \in ExternalValues :
          /\ \A r \in raced : <<r[1], r[2]>> # <<pairIdx, batch[i].id>>
          /\ collection' = [collection EXCEPT ![batch[i].id].tgt[pairIdx] = v]
          /\ raced' = raced \cup {<<pairIdx, batch[i].id, v>>}
    /\ UNCHANGED <<script, BATCH_SIZE, pairIdx, cursor, total, batch, count,
                   attempt, embeddings, ret, pc, run, start, scanned, flushes,
                   embedCalls, embedPosts, embedFails, lastFails, lastPosts,
                   writes, written>>
    /\ UNCHANGED restE

\* The pass of one pair is complete: the next pair, or the end of the script.
NextPair ==
    /\ pc = "passdone"
    /\ IF pairIdx < NumPairs(script)
       THEN /\ pairIdx' = pairIdx + 1
            /\ pc' = "query"
       ELSE /\ pairIdx' = pairIdx
            /\ pc' = "done"
    /\ UNCHANGED <<script, BATCH_SIZE, collection, cursor, total, batch, count,
                   attempt, embeddings, ret, run, start, scanned, flushes,
                   embedCalls, embedPosts, embedFails, lastFails, lastPosts, writes, written>>
    /\ UNCHANGED restB

\* The script is run a second time, directly after a run that completed with
\* every bulk write successful.
Rerun ==
    /\ pc = "done"
    /\ run = 1
    /\ \A i \in 1..Len(writes) : writes[i]
    /\ run' = 2
    /\ pc' = "start"
    /\ pairIdx' = 1
    /\ cursor' = <<>>
    /\ total' = 0
    /\ batch' = <<>>
    /\ count' = 0
    /\ attempt' = 0
    /\ embeddings' = <<>>
    /\ ret' = "loop"
    /\ start' = collection
    /\ scanned' = 0
    /\ flushes' = <<>>
    /\ embedCalls' = 0
    /\ embedPosts' = 0
    /\ embedFails' = 0
    /\ lastFails' = 0
    /\ lastPosts' = 0
    /\ writes' = <<>>
    /\ written' = {}
    /\ UNCHANGED <<script, BATCH_SIZE, collection>>
    /\ UNCHANGED restB

NextB ==
    \/ Connect
    \/ Query
    \/ ScanDoc
    \/ ScanEnd
    \/ EmbedOK
    \/ EmbedFail
    \/ BulkWriteOK
    \/ BulkWriteFail
    \/ NextPair
    \/ Rerun

IdleB ==
    /\ script = "single"
    /\ BATCH_SIZE = 1
    /\ collection = <<>>
    /\ pairIdx = 1
    /\ cursor = <<>>
    /\ total = 0
    /\ batch = <<>>
    /\ count = 0
    /\ attempt = 0
    /\ embeddings = <<>>
    /\ ret = "loop"
    /\ pc = "idle"
    /\ run = 1
    /\ start = <<>>
    /\ scanned = 0
    /\ flushes = <<>>
    /\ embedCalls = 0
    /\ embedPosts = 0
    /\ embedFails = 0
    /\ lastFails = 0
    /\ lastPosts = 0
    /\ writes = <<>>
    /\ written = {}

(***************************************************************************)
(* INDEX READINESS WAIT: wait_for_index_ready of manage_vector_index.py.   *)
(* Time is counted in ticks since the call (time.time() - start).          *)
(***************************************************************************)
\* poll_interval ranges over 0..MaxPoll, timeout over 0..MaxTimeout
MaxPoll == 2
MaxTimeout == 3
\* a listing call takes 0..MaxListTime ticks
MaxListTime == 1
\* listing calls followed in one wait
MaxPolls == 4

INDEX_NAME == "usr_activity_vector_index"

\* statuses the remote system reports; NoStatus is an entry without the key
NoStatus == "<no status>"
Statuses == {"PENDING", "BUILDING", "READY", "ready", NoStatus}
NotListed == "<not listed>"

\* str.upper() on the statuses above
upper(st) == IF st = "ready" THEN "READY" ELSE st

\* idx.get("status", "UNKNOWN")
status_of(idx) == IF idx.status = NoStatus THEN "UNKNOWN" ELSE idx.status

\* the index definitions of the other indexes of the cluster
OtherIndexes == <<[name |-> "default", status |-> "READY"]>>

\* The body of a successful listing response, in one of the two shapes the
\* API uses: a list, or an object with a "results" list.
Response(shape, r) ==
    [shape |-> shape,
     items |-> IF r = NotListed THEN OtherIndexes
               ELSE OtherIndexes \o <<[name |-> INDEX_NAME, status |-> r]>>]

\* list_vector_indexes: the indexes of a response
list_vector_indexes(data) ==
    IF data.shape = "results" THEN data.items
    ELSE IF data.shape = "list" THEN data.items
    ELSE <<>>

\* next((i for i in indexes if i.get("name") == index_name), None); the
\* result is a sequence: empty for None
first_any(indexes, name) == IF indexes = <<>> THEN <<>> ELSE <<indexes[1]>>
first_named(indexes, name) ==
    LET hits == SelectSeq(indexes, LAMBDA i : i.name = name)
    IN  IF hits = <<>> THEN <<>> ELSE <<hits[1]>>

\* the loop condition: time.time() - start < timeout
within_timeout_inclusive(elapsed, t) == elapsed <= t
within_timeout(elapsed, t) == elapsed < t

InitW ==
    /\ w_pc = "check"
    /\ poll_interval \in 0..MaxPoll
    /\ timeout \in 0..MaxTimeout
    /\ now = 0
    /\ remote \in Statuses \cup {NotListed}
    /\ w_result = FALSE
    /\ polls = 0
    /\ sleeps = 0
    /\ firstSeen = "<no poll>"
    /\ sawReady = FALSE
    /\ steadyReady = (remote = "READY")
    /\ listFailed = FALSE

\* The loop condition: another poll, or the timeout message and return False.
Check ==
    /\ w_pc = "check"
    /\ IF within_timeout(now, timeout)
       THEN /\ w_pc' = "list"
            /\ w_result' = w_result
       ELSE /\ w_pc' = "returned"
            /\ w_result' = FALSE
    /\ UNCHANGED <<poll_interval, timeout, now, remote, polls, sleeps, firstSeen,
                   sawReady, steadyReady, listFailed>>
    /\ UNCHANGED restW

\* A listing call answers after dt ticks: READY returns True, anything else
\* goes to sleep.
ListOK ==
    /\ w_pc = "list"
    /\ polls < MaxPolls
    /\ \E dt \in 0..MaxListTime, shape \in {"list", "results"} :
          LET indexes == list_vector_indexes(Response(shape, remote))
              idx == first_named(indexes, INDEX_NAME)
              ready == idx # <<>> /\ upper(status_of(idx[1])) = "READY"
          IN  /\ now' = now + dt
              /\ w_pc' = IF ready THEN "returned" ELSE "sleep"
              /\ w_result' = IF ready THEN TRUE ELSE w_result
    /\ polls' = polls + 1
    /\ firstSeen' = IF polls = 0 THEN remote ELSE firstSeen
    /\ sawReady' = (sawReady \/ remote \in {"READY", "ready"})
    /\ UNCHANGED <<poll_interval, timeout, remote, sleeps, steadyReady, listFailed>>
    /\ UNCHANGED restW

\* A listing call fails (401, another status, no connection): atlas_get
\* raises and wait_for_index_ready does not catch it.
ListFail ==
    /\ w_pc = "list"
    /\ polls < MaxPolls
    /\ \E dt \in 0..MaxListTime : now' = now + dt
    /\ polls' = polls + 1
    /\ listFailed' = TRUE
    /\ w_pc' = "raised"
    /\ UNCHANGED <<poll_interval, timeout, remote, w_result, sleeps, firstSeen,
                   sawReady, steadyReady>>
    /\ UNCHANGED restW

\* time.sleep(poll_interval)
Sleep ==
    /\ w_pc = "sleep"
    /\ now' = now + poll_interval
    /\ sleeps' = sleeps + 1
    /\ w_pc' = "check"
    /\ UNCHANGED <<poll_interval, timeout, remote, w_result, polls, firstSeen,
                   sawReady, steadyReady, listFailed>>
    /\ UNCHANGED restW

\* The remote system moves the index to another status while the call runs.
RemoteChange ==
    /\ w_pc \in {"check", "list", "sleep"}
    /\ \E r \in Statuses \cup {NotListed} :
          /\ r # remote
          /\ remote' = r
    /\ steadyReady' = FALSE
    /\ UNCHANGED <<w_pc, poll_interval, timeout, now, w_result, polls, sleeps,
                   firstSeen, sawReady, listFailed>>
    /\ UNCHANGED restW

IdleW ==
    /\ w_pc = "idle"
    /\ poll_interval = 0
    /\ timeout = 0
    /\ now = 0
    /\ remote = NotListed
    /\ w_result = FALSE
    /\ polls = 0
    /\ sleeps = 0
    /\ firstSeen = "<no poll>"
    /\ sawReady = FALSE
    /\ steadyReady = FALSE
    /\ listFailed = FALSE

(***************************************************************************)
(* RETRIEVAL: retrieve_relevant_docs of rag_with_input.py.                 *)
(***************************************************************************)
\* document identities 1..MaxIds, similarity scores 1..MaxScore,
\* limit in 1..MaxLimit
MaxIds == 3
MaxScore == 2
MaxLimit == 2

\* What one $vectorSearch + $project can answer for a field: at most limit
\* documents, each once, ranked by score.
SearchResults(lim) ==
    UNION { { rs \in [1..n -> [id : 1..MaxIds, score : 1..MaxScore]] :
                /\ \A i, j \in 1..n : i # j => rs[i].id # rs[j].id
                /\ \A i \in 1..(n - 1) : rs[i].score >= rs[i + 1].score }
            : n \in 0..lim }

\* for r in results: r["_search_field"] = field
tag(results, field) ==
    [i \in 1..Len(results) |->
        [id |-> results[i].id, score |-> results[i].score, field |-> field]]

\* all_results.sort(key=score, reverse=True): a stable sort, equal scores stay
\* in the order they were collected
RECURSIVE insert_desc(_, _)
insert_desc(sorted, r) ==
    IF sorted = <<>> THEN <<r>>
    ELSE IF Head(sorted).score >= r.score
         THEN <<Head(sorted)>> \o insert_desc(Tail(sorted), r)
         ELSE <<r>> \o sorted

RECURSIVE sort_desc_from(_, _)
sort_desc_from(sorted, rest) ==
    IF rest = <<>> THEN sorted
    ELSE sort_desc_from(insert_desc(sorted, Head(rest)), Tail(rest))

sort_not_done(rs) == rs
sort_desc(rs) == sort_desc_from(<<>>, rs)

\* the deduplication loop: the first occurrence of every _id is kept, and the
\* loop breaks once limit documents are kept
RECURSIVE dedupe_from(_, _, _, _)
dedupe_from(rest, seen, unique, lim) ==
    IF rest = <<>> THEN unique
    ELSE LET r == Head(rest)
             fresh == r.id \notin seen
             unique2 == IF fresh THEN Append(unique, r) ELSE unique
             seen2 == IF fresh THEN seen \cup {r.id} ELSE seen
         IN  IF Len(unique2) >= lim THEN unique2
             ELSE dedupe_from(Tail(rest), seen2, unique2, lim)

dedupe_unlimited(rs, lim) == dedupe_from(rs, {}, <<>>, Len(rs) + 1)
dedupe(rs, lim) == dedupe_from(rs, {}, <<>>, lim)

InitR ==
    /\ r_pc = "embed"
    /\ limit \in 1..MaxLimit
    /\ fieldIdx = 1
    /\ all_results = <<>>
    /\ unique_results = <<>>
    /\ queryEmbeds = 0
    /\ searches = <<>>
    /\ failedFields = {}
    /\ answered = <<>>

\* v.embed(texts=[query_text]) answers
EmbedQuery ==
    /\ r_pc = "embed"
    /\ queryEmbeds' = queryEmbeds + 1
    /\ r_pc' = "search"
    /\ UNCHANGED <<limit, fieldIdx, all_results, unique_results, searches,
                   failedFields, answered>>
    /\ UNCHANGED restR

\* v.embed raises: nothing catches it
EmbedQueryFail ==
    /\ r_pc = "embed"
    /\ queryEmbeds' = queryEmbeds + 1
    /\ r_pc' = "raised"
    /\ UNCHANGED <<limit, fieldIdx, all_results, unique_results, searches,
                   failedFields, answered>>
    /\ UNCHANGED restR

\* the next field of "for field in EMBEDDING_NAMES", or the merge after the
\* last one
AfterSearch ==
    /\ fieldIdx' = fieldIdx + 1
    /\ r_pc' = IF fieldIdx + 1 > Len(EMBEDDING_NAMES) THEN "merge" ELSE "search"

\* coll.aggregate(pipeline) answers for the current field
SearchOK ==
    /\ r_pc = "search"
    /\ \E results \in SearchResults(limit) :
          /\ all_results' = all_results \o tag(results, EMBEDDING_NAMES[fieldIdx])
          /\ answered' = Append(answered, tag(results, EMBEDDING_NAMES[fieldIdx]))
    /\ searches' = Append(searches, EMBEDDING_NAMES[fieldIdx])
    /\ AfterSearch
    /\ UNCHANGED <<limit, unique_results, queryEmbeds, failedFields>>
    /\ UNCHANGED restR

\* coll.aggregate(pipeline) raises for the current field: printed and skipped
SearchFail_raises ==
    /\ r_pc = "search"
    /\ searches' = Append(searches, EMBEDDING_NAMES[fieldIdx])
    /\ failedFields' = failedFields \cup {EMBEDDING_NAMES[fieldIdx]}
    /\ r_pc' = "raised"
    /\ UNCHANGED <<limit, fieldIdx, all_results, unique_results, queryEmbeds,
                   answered>>
    /\ UNCHANGED restR
SearchFail ==
    /\ r_pc = "search"
    /\ searches' = Append(searches, EMBEDDING_NAMES[fieldIdx])
    /\ failedFields' = failedFields \cup {EMBEDDING_NAMES[fieldIdx]}
    /\ AfterSearch
    /\ UNCHANGED <<limit, all_results, unique_results, queryEmbeds, answered>>
    /\ UNCHANGED restR

\* no results: return []; otherwise sort, deduplicate, truncate and return
Merge ==
    /\ r_pc = "merge"
    /\ unique_results' = IF all_results = <<>> THEN <<>>
                         ELSE dedupe(sort_desc(all_results), limit)
    /\ r_pc' = "returned"
    /\ UNCHANGED <<limit, fieldIdx, all_results, queryEmbeds, searches,
                   failedFields, answered>>
    /\ UNCHANGED restR

IdleR ==
    /\ r_pc = "idle"
    /\ limit = 0
    /\ fieldIdx = 0
    /\ all_results = <<>>
    /\ unique_results = <<>>
    /\ queryEmbeds = 0
    /\ searches = <<>>
    /\ failedFields = {}
    /\ answered = <<>>

(***************************************************************************)
(* FIELD REMOVAL: remove_fullplot_embeddings.py ("remove_fullplot") and    *)
(* remove_embeddings.py ("remove_embeddings").                             *)
(***************************************************************************)
\* a name with dot notation, as in the example of remove_embeddings.py
DOTTED_NAME == "data.actv_embedding"

\* "." in name
dotted(name) == name = DOTTED_NAME

\* the names a removal script can be configured with: the hard-coded name of
\* remove_fullplot_embeddings.py, the EMBEDDING_NAMES of remove_embeddings.py
RemoveNames(s) ==
    IF s = "remove_fullplot"
    THEN {<<"fullplot_embedding">>}
    ELSE {EMBEDDING_NAMES, <<EMBEDDING_NAMES[1], DOTTED_NAME>>, <<DOTTED_NAME>>}

\* the embedding field of the modelled documents a top-level name denotes
FieldOf(name) ==
    IF name = "fullplot_embedding" THEN 1
    ELSE CHOOSE i \in 1..Len(EMBEDDING_NAMES) : EMBEDDING_NAMES[i] = name

\* {name: {"$exists": True}}: the field is there, whatever its value; a dotted
\* name matches through embedded documents and through arrays
exists(coll, data, d, name) ==
    IF dotted(name) THEN data[d] # "none"
    ELSE coll[d].tgt[FieldOf(name)].k # "absent"

\* collection.count_documents({name: {"$exists": True}})
count_vectors_only(coll, data, name) ==
    Cardinality({d \in DOMAIN coll :
        IF dotted(name) THEN data[d] # "none"
        ELSE coll[d].tgt[FieldOf(name)].k = "vec"})
count_documents(coll, data, name) ==
    Cardinality({d \in DOMAIN coll : exists(coll, data, d, name)})

\* {"$unset": {name: ""}} of a top-level name on the documents S
unset_top_sets_null(coll, name, S) ==
    [d \in DOMAIN coll |->
        IF d \in S /\ coll[d].tgt[FieldOf(name)].k # "absent"
        THEN [coll[d] EXCEPT !.tgt[FieldOf(name)] = Blank]
        ELSE coll[d]]
unset_top(coll, name, S) ==
    [d \in DOMAIN coll |->
        IF d \in S THEN [coll[d] EXCEPT !.tgt[FieldOf(name)] = Absent]
        ELSE coll[d]]

\* {"$unset": {name: ""}} of the dotted name on the documents S: the field of
\* an embedded document is removed; through an array the plain path removes
\* it or leaves it, as the server decides
unset_dotted(data, S, through_arrays) ==
    [d \in DOMAIN data |->
        IF d \in S /\ (data[d] = "nested" \/ (data[d] = "in_array" /\ through_arrays))
        THEN "none"
        ELSE data[d]]

\* result.modified_count: the documents the update changed
modified_count(coll, data, coll2, data2) ==
    Cardinality({d \in DOMAIN coll : coll[d] # coll2[d] \/ data[d] # data2[d]})

\* the state of a removal script when it starts on a collection
InitM(coll) ==
    /\ rm_script \in {"remove_fullplot", "remove_embeddings"}
    /\ rm_names \in RemoveNames(rm_script)
    /\ rm_pc = "count"
    /\ nameIdx = 1
    /\ count_with_field = 0
    /\ total_removed = 0
    /\ before = coll
    /\ dataBefore = dataField
    /\ rm_log = <<>>

\* the next name of "for name in EMBEDDING_NAMES", or the end of the script
RmAdvance ==
    IF nameIdx < Len(rm_names)
    THEN nameIdx' = nameIdx + 1 /\ rm_pc' = "count"
    ELSE nameIdx' = nameIdx /\ rm_pc' = "done"

\* count_documents answers; with a count of zero the name is skipped and no
\* update is issued
RmCount ==
    /\ rm_pc = "count"
    /\ LET name == rm_names[nameIdx]
           c == count_documents(collection, dataField, name)
       IN  /\ count_with_field' = c
           /\ IF c = 0
              THEN /\ rm_log' = Append(rm_log, [name |-> name, counted |-> 0,
                                                updated |-> FALSE, ok |-> TRUE,
                                                filtered |-> FALSE, modified |-> 0])
                   /\ RmAdvance
              ELSE /\ rm_pc' = "update"
                   /\ UNCHANGED <<rm_log, nameIdx>>
    /\ UNCHANGED <<rm_script, rm_names, dataField, total_removed, before, dataBefore>>
    /\ UNCHANGED varsB
    /\ UNCHANGED restM

\* count_documents raises: nothing catches it
RmCountFail ==
    /\ rm_pc = "count"
    /\ rm_pc' = "crashed"
    /\ UNCHANGED <<rm_script, rm_names, nameIdx, dataField, count_with_field,
                   total_removed, before, dataBefore, rm_log>>
    /\ UNCHANGED varsB
    /\ UNCHANGED restM

\* update_many answers: every document for a top-level name, the documents
\* holding the field for a dotted name
RmUpdateOK ==
    /\ rm_pc = "update"
    /\ \E through_arrays \in BOOLEAN :
        LET name == rm_names[nameIdx]
            S == IF dotted(name)
                 THEN {d \in DOMAIN collection : exists(collection, dataField, d, name)}
                 ELSE DOMAIN collection
            coll2 == IF dotted(name) THEN collection ELSE unset_top(collection, name, S)
            data2 == IF dotted(name) THEN unset_dotted(dataField, S, through_arrays)
                     ELSE dataField
            m == modified_count(collection, dataField, coll2, data2)
        IN  /\ collection' = coll2
            /\ dataField' = data2
            /\ total_removed' = IF rm_script = "remove_embeddings"
                                THEN total_removed + m ELSE total_removed
            /\ rm_log' = Append(rm_log, [name |-> name, counted |-> count_with_field,
                                         updated |-> TRUE, ok |-> TRUE,
                                         filtered |-> dotted(name), modified |-> m])
    /\ RmAdvance
    /\ UNCHANGED <<rm_script, rm_names, count_with_field, before, dataBefore>>
    /\ UNCHANGED <<script, BATCH_SIZE, pairIdx, cursor, total, batch, count,
                   attempt, embeddings, ret, pc, run, start, scanned, flushes,
                   embedCalls, embedPosts, embedFails, lastFails, lastPosts,
                   writes, written>>
    /\ UNCHANGED restM

\* update_many raises after it changed some of the documents: caught and
\* printed in remove_embeddings.py, not caught in remove_fullplot_embeddings.py
RmUpdateFail ==
    /\ rm_pc = "update"
    /\ \E T \in SUBSET (DOMAIN collection) :
        LET name == rm_names[nameIdx]
            S == {d \in T : exists(collection, dataField, d, name)}
        IN  /\ collection' = IF dotted(name) THEN collection
                             ELSE unset_top(collection, name, S)
            /\ dataField' = IF dotted(name) THEN unset_dotted(dataField, S, FALSE)
                            ELSE dataField
            /\ rm_log' = Append(rm_log, [name |-> name, counted |-> count_with_field,
                                         updated |-> TRUE, ok |-> FALSE,
                                         filtered |-> dotted(name), modified |-> 0])
    /\ IF rm_script = "remove_embeddings"
       THEN RmAdvance
       ELSE nameIdx' = nameIdx /\ rm_pc' = "crashed"
    /\ UNCHANGED <<rm_script, rm_names, count_with_field, total_removed, before,
                   dataBefore>>
    /\ UNCHANGED <<script, BATCH_SIZE, pairIdx, cursor, total, batch, count,
                   attempt, embeddings, ret, pc, run, start, scanned, flushes,
                   embedCalls, embedPosts, embedFails, lastFails, lastPosts,
                   writes, written>>
    /\ UNCHANGED restM

\* the backfill script is started once the removal script has ended
StartBackfill ==
    /\ rm_pc = "done"
    /\ pc = "idle"
    /\ pc' = "start"
    /\ start' = collection
    /\ UNCHANGED <<script, BATCH_SIZE, collection, pairIdx, cursor, total, batch,
                   count, attempt, embeddings, ret, run, scanned, flushes,
                   embedCalls, embedPosts, embedFails, lastFails, lastPosts,
                   writes, written>>
    /\ UNCHANGED varsM
    /\ UNCHANGED restM

IdleM ==
    /\ rm_script = "remove_fullplot"
    /\ rm_names = <<>>
    /\ rm_pc = "idle"
    /\ nameIdx = 0
    /\ dataField = <<>>
    /\ count_with_field = 0
    /\ total_removed = 0
    /\ before = <<>>
    /\ dataBefore = <<>>
    /\ rm_log = <<>>

(***************************************************************************)
(* INDEX MANAGERS: manage_vector_index.py ("manage_vector_index") and      *)
(* manage_fullplot_vector_index.py ("manage_fullplot").                    *)
(***************************************************************************)
\* --timeout ranges over the multiples of the poll interval up to MaxArgPolls
\* intervals, and its default
MaxArgPolls == 2

\* the defaults of wait_for_index_ready's parameters
DEFAULT_POLL_INTERVAL == 15
DEFAULT_TIMEOUT == 900

Similarities == {"cosine", "euclidean"}

\* the field lists manage_vector_index.py can be asked for
FieldArgs == {SubSeq(EMBEDDING_NAMES, 1, k) : k \in 0..Len(EMBEDDING_NAMES)}

ArgTimeouts ==
    {DEFAULT_POLL_INTERVAL * k : k \in 0..MaxArgPolls} \cup {DEFAULT_TIMEOUT}

\* NUM_DIMENSIONS: the environment default of manage_vector_index.py, the
\* constant of manage_fullplot_vector_index.py
NUM_DIMENSIONS(s) == IF s = "manage_fullplot" THEN 1024 ELSE 1536

\* the field specs of the payload: one per field, with path, type,
\* numDimensions and similarity
field_definitions_first_only(s, fields, similarity) ==
    IF fields = <<>> THEN <<>>
    ELSE <<[path |-> fields[1], type |-> "vector",
            numDimensions |-> NUM_DIMENSIONS(s), similarity |-> similarity]>>
field_definitions(s, fields, similarity) ==
    [i \in 1..Len(fields) |->
        [path |-> fields[i], type |-> "vector",
         numDimensions |-> NUM_DIMENSIONS(s), similarity |-> similarity]]

\* DESIRED_INDEX["fields"] of manage_fullplot_vector_index.py, and the
\* field_definitions manage_vector_index.py builds from its arguments
desired ==
    IF i_script = "manage_fullplot"
    THEN field_definitions(i_script, <<"fullplot_embedding">>, "cosine")
    ELSE field_definitions(i_script, i_fields, i_similarity)

IndexStatuses == {"PENDING", "READY", "FAILED"}

\* the remote system lists no index under the requested name
NoIndex == [listed |-> FALSE, fields |-> <<>>, status |-> "PENDING", has_id |-> FALSE]

\* the index definitions the remote system can hold under the requested name
RemoteIndexes(s) ==
    {NoIndex} \cup
    [listed : {TRUE},
     fields : {field_definitions(s, f, sim) :
                  f \in (IF s = "manage_fullplot" THEN {<<"fullplot_embedding">>}
                         ELSE FieldArgs \ {<<>>}),
                  sim \in Similarities},
     status : IndexStatuses,
     has_id : BOOLEAN]

NoLoop == [who |-> "none", timeout |-> 0, elapsed |-> 0]

\* the exit code after a failed index-management call: in
\* manage_vector_index.py PermissionError and RuntimeError reach the handler
\* of the entry point (sys.exit(1)) and a network error raises SystemExit
\* with a message (exit code 1); manage_fullplot_vector_index.py calls
\* exit(1) in verify_connectivity, and catches and prints every error in
\* ensure_vector_index
exit_after_failure(s, kind, failure) ==
    IF s = "manage_vector_index" THEN 1
    ELSE IF kind = "connectivity" THEN 1
    ELSE 0

Failures == {"unauthorized", "status", "network"}

InitI ==
    /\ i_script \in {"manage_vector_index", "manage_fullplot"}
    /\ i_keys \in BOOLEAN
    /\ i_fields \in (IF i_script = "manage_fullplot" THEN {<<"fullplot_embedding">>}
                     ELSE FieldArgs)
    /\ i_similarity \in (IF i_script = "manage_fullplot" THEN {"cosine"}
                         ELSE Similarities)
    /\ i_wait \in (IF i_script = "manage_fullplot" THEN {FALSE} ELSE BOOLEAN)
    /\ i_timeout \in (IF i_script = "manage_fullplot" THEN {DEFAULT_TIMEOUT}
                      ELSE ArgTimeouts)
    /\ i_remote \in RemoteIndexes(i_script)
    /\ i_pc = "startup"
    /\ i_loop = NoLoop
    /\ i_exit = -1
    /\ i_run = 1
    /\ i_calls = <<>>
    /\ i_found = "unset"
    /\ failedCall = "none"
    /\ pollCount = 0
    /\ pollTime = 0
    /\ lastPollAt = -1
    /\ unrequested = FALSE

\* the three variables every step of the script sets
Goto(position, loop, code) ==
    /\ i_pc' = position
    /\ i_loop' = loop
    /\ i_exit' = code

Exit(code) == Goto("exited", NoLoop, code)

\* wait_for_index_ready(index_name, timeout=t) is called
StartLoop(who, t) ==
    Goto("poll", [who |-> who, timeout |-> t, elapsed |-> 0], i_exit)

\* after ensure_vector_index returned: if args.wait, wait with args.timeout
AfterEnsure ==
    IF i_wait THEN StartLoop("main", i_timeout) ELSE Exit(0)

\* after wait_for_index_ready returned, to ensure_vector_index or to the
\* entry point
AfterLoop ==
    IF i_loop.who = "ensure" THEN AfterEnsure ELSE Exit(0)

Call(kind, ok, payload) ==
    [kind |-> kind, ok |-> ok, run |-> i_run, fields |-> payload]

\* an index-management call outside the poll loops fails
FailCall(kind, failure) ==
    /\ i_calls' = Append(i_calls, Call(kind, FALSE, <<>>))
    /\ failedCall' = kind
    /\ Exit(exit_after_failure(i_script, kind, failure))

\* the validation of the required environment variables at import
Startup ==
    /\ i_pc = "startup"
    /\ IF i_keys THEN Goto("connectivity", NoLoop, i_exit) ELSE Exit(1)
    /\ UNCHANGED <<i_script, i_keys, i_fields, i_similarity, i_wait, i_timeout,
                   i_remote, i_run, i_calls, i_found, failedCall, pollCount,
                   pollTime, lastPollAt, unrequested>>
    /\ UNCHANGED restI

\* check_connectivity / verify_connectivity: the cluster listing answers
ConnectivityOK ==
    /\ i_pc = "connectivity"
    /\ i_calls' = Append(i_calls, Call("connectivity", TRUE, <<>>))
    /\ Goto(IF i_script = "manage_vector_index" THEN "list" ELSE "ensure",
            NoLoop, i_exit)
    /\ UNCHANGED <<i_script, i_keys, i_fields, i_similarity, i_wait, i_timeout,
                   i_remote, i_run, i_found, failedCall, pollCount, pollTime,
                   lastPollAt, unrequested>>
    /\ UNCHANGED restI

ConnectivityFail ==
    /\ i_pc = "connectivity"
    /\ \E f \in Failures : FailCall("connectivity", f)
    /\ UNCHANGED <<i_script, i_keys, i_fields, i_similarity, i_wait, i_timeout,
                   i_remote, i_run, i_found, pollCount, pollTime, lastPollAt,
                   unrequested>>
    /\ UNCHANGED restI

\* list_vector_indexes() of the entry point answers; then the fields are
\* determined and an empty list raises ValueError
MainListOK ==
    /\ i_pc = "list"
    /\ i_calls' = Append(i_calls, Call("list", TRUE, <<>>))
    /\ IF i_fields = <<>> THEN Exit(1) ELSE Goto("ensure", NoLoop, i_exit)
    /\ UNCHANGED <<i_script, i_keys, i_fields, i_similarity, i_wait, i_timeout,
                   i_remote, i_run, i_found, failedCall, pollCount, pollTime,
                   lastPollAt, unrequested>>
    /\ UNCHANGED restI

MainListFail ==
    /\ i_pc = "list"
    /\ \E f \in Failures : FailCall("list", f)
    /\ UNCHANGED <<i_script, i_keys, i_fields, i_similarity, i_wait, i_timeout,
                   i_remote, i_run, i_found, pollCount, pollTime, lastPollAt,
                   unrequested>>
    /\ UNCHANGED restI

\* the listing of ensure_vector_index answers.
\* manage_vector_index.py: an existing index is waited for when it is not
\* READY, and nothing else is done with it; a missing one is created.
\* manage_fullplot_vector_index.py: the fields of an existing index are
\* compared with the desired ones and a difference leads to the update, for
\* which existing["_id"] is read (a KeyError is caught and printed).
EnsureListOK ==
    /\ i_pc = "ensure"
    /\ i_calls' = Append(i_calls, Call("list", TRUE, <<>>))
    /\ i_found' = IF ~i_remote.listed THEN "absent"
                  ELSE IF i_remote.fields = desired THEN "same" ELSE "different"
    /\ IF ~i_remote.listed THEN Goto("create", NoLoop, i_exit)
       ELSE IF i_script = "manage_vector_index"
            THEN IF upper(i_remote.status) # "READY"
                 THEN StartLoop("ensure", DEFAULT_TIMEOUT)
                 ELSE AfterEnsure
            ELSE IF i_remote.fields # desired
                 THEN IF i_remote.has_id THEN Goto("update", NoLoop, i_exit)
                      ELSE Exit(0)
                 ELSE Exit(0)
    /\ UNCHANGED <<i_script, i_keys, i_fields, i_similarity, i_wait, i_timeout,
                   i_remote, i_run, failedCall, pollCount, pollTime, lastPollAt,
                   unrequested>>
    /\ UNCHANGED restI

EnsureListFail ==
    /\ i_pc = "ensure"
    /\ \E f \in Failures : FailCall("list", f)
    /\ UNCHANGED <<i_script, i_keys, i_fields, i_similarity, i_wait, i_timeout,
                   i_remote, i_run, i_found, pollCount, pollTime, lastPollAt,
                   unrequested>>
    /\ UNCHANGED restI

\* the create call answers: the remote system now lists the index with the
\* fields of the payload. manage_vector_index.py waits for it when the answer
\* carries an id or the status IN_PROGRESS.
CreateOK ==
    /\ i_pc = "create"
    /\ i_calls' = Append(i_calls, Call("create", TRUE, desired))
    /\ i_remote' = [listed |-> TRUE, fields |-> desired, status |-> "PENDING",
                    has_id |-> TRUE]
    /\ IF i_script = "manage_vector_index"
       THEN \E started \in BOOLEAN :
               IF started THEN StartLoop("ensure", DEFAULT_TIMEOUT) ELSE AfterEnsure
       ELSE Exit(0)
    /\ UNCHANGED <<i_script, i_keys, i_fields, i_similarity, i_wait, i_timeout,
                   i_run, i_found, failedCall, pollCount, pollTime, lastPollAt,
                   unrequested>>
    /\ UNCHANGED restI

CreateFail ==
    /\ i_pc = "create"
    /\ \E f \in Failures : FailCall("create", f)
    /\ UNCHANGED <<i_script, i_keys, i_fields, i_similarity, i_wait, i_timeout,
                   i_remote, i_run, i_found, pollCount, pollTime, lastPollAt,
                   unrequested>>
    /\ UNCHANGED restI

\* the update call of manage_fullplot_vector_index.py answers
UpdateOK ==
    /\ i_pc = "update"
    /\ i_calls' = Append(i_calls, Call("update", TRUE, desired))
    /\ i_remote' = [i_remote EXCEPT !.fields = desired]
    /\ Exit(0)
    /\ UNCHANGED <<i_script, i_keys, i_fields, i_similarity, i_wait, i_timeout,
                   i_run, i_found, failedCall, pollCount, pollTime, lastPollAt,
                   unrequested>>
    /\ UNCHANGED restI

UpdateFail ==
    /\ i_pc = "update"
    /\ \E f \in Failures : FailCall("update", f)
    /\ UNCHANGED <<i_script, i_keys, i_fields, i_similarity, i_wait, i_timeout,
                   i_remote, i_run, i_found, pollCount, pollTime, lastPollAt,
                   unrequested>>
    /\ UNCHANGED restI

\* one iteration of the loop of wait_for_index_ready: the listing answers;
\* READY returns True, anything else sleeps for the poll interval
PollOK ==
    /\ i_pc = "poll"
    /\ within_timeout(i_loop.elapsed, i_loop.timeout)
    /\ pollCount' = pollCount + 1
    /\ lastPollAt' = pollTime
    /\ unrequested' = (unrequested \/ ~i_wait)
    /\ IF i_remote.listed /\ upper(i_remote.status) = "READY"
       THEN /\ AfterLoop
            /\ pollTime' = pollTime
       ELSE /\ Goto("poll", [i_loop EXCEPT !.elapsed = @ + DEFAULT_POLL_INTERVAL],
                    i_exit)
            /\ pollTime' = pollTime + DEFAULT_POLL_INTERVAL
    /\ UNCHANGED <<i_script, i_keys, i_fields, i_similarity, i_wait, i_timeout,
                   i_remote, i_run, i_calls, i_found, failedCall>>
    /\ UNCHANGED restI

\* the listing of a loop iteration fails
PollFail ==
    /\ i_pc = "poll"
    /\ within_timeout(i_loop.elapsed, i_loop.timeout)
    /\ pollCount' = pollCount + 1
    /\ lastPollAt' = pollTime
    /\ unrequested' = (unrequested \/ ~i_wait)
    /\ \E f \in Failures :
          /\ failedCall' = "poll"
          /\ Exit(exit_after_failure(i_script, "poll", f))
    /\ UNCHANGED <<i_script, i_keys, i_fields, i_similarity, i_wait, i_timeout,
                   i_remote, i_run, i_calls, i_found, pollTime>>
    /\ UNCHANGED restI

\* the loop condition fails: wait_for_index_ready returns False
PollTimeout ==
    /\ i_pc = "poll"
    /\ ~within_timeout(i_loop.elapsed, i_loop.timeout)
    /\ AfterLoop
    /\ UNCHANGED <<i_script, i_keys, i_fields, i_similarity, i_wait, i_timeout,
                   i_remote, i_run, i_calls, i_found, failedCall, pollCount,
                   pollTime, lastPollAt, unrequested>>
    /\ UNCHANGED restI

\* the remote system changes the status of the index while a loop polls
RemoteStatus ==
    /\ i_pc = "poll"
    /\ i_remote.listed
    /\ \E st \in IndexStatuses \ {i_remote.status} :
          i_remote' = [i_remote EXCEPT !.status = st]
    /\ UNCHANGED <<i_script, i_keys, i_fields, i_similarity, i_wait, i_timeout,
                   i_pc, i_loop, i_exit, i_run, i_calls, i_found, failedCall,
                   pollCount, pollTime, lastPollAt, unrequested>>
    /\ UNCHANGED restI

\* the script is run a second time with the same arguments, after a first
\* run whose create call was acknowledged
RerunIndex ==
    /\ i_pc = "exited"
    /\ i_run = 1
    /\ \E i \in 1..Len(i_calls) : i_calls[i].kind = "create" /\ i_calls[i].ok
    /\ i_run' = 2
    /\ Goto("startup", NoLoop, -1)
    /\ i_found' = "unset"
    /\ failedCall' = "none"
    /\ pollCount' = 0
    /\ pollTime' = 0
    /\ lastPollAt' = -1
    /\ unrequested' = FALSE
    /\ UNCHANGED <<i_script, i_keys, i_fields, i_similarity, i_wait, i_timeout,
                   i_remote, i_calls>>
    /\ UNCHANGED restI

IdleI ==
    /\ i_script = "manage_vector_index"
    /\ i_keys = TRUE
    /\ i_fields = <<>>
    /\ i_similarity = "cosine"
    /\ i_wait = FALSE
    /\ i_timeout = 0
    /\ i_remote = NoIndex
    /\ i_pc = "idle"
    /\ i_loop = NoLoop
    /\ i_exit = -1
    /\ i_run = 1
    /\ i_calls = <<>>
    /\ i_found = "unset"
    /\ failedCall = "none"
    /\ pollCount = 0
    /\ pollTime = 0
    /\ lastPollAt = -1
    /\ unrequested = FALSE

(***************************************************************************)
(* GENERATION: generate_answer of rag_with_input.py ("rag_with_input") and *)
(* rag_mistral_complete.py ("rag_mistral_complete").                       *)
(***************************************************************************)
\* docs holds up to MaxGenDocs documents
MaxGenDocs == 3

NO_DOCS_ANSWER == "No relevant documents found to generate an answer."
GENERATION_ERROR == "Error during generation."

\* the texts a "response" value can be, and what str.strip() makes of the
\* ones with leading or trailing whitespace
Stripped ==
    {<<" a ", "a">>, <<"a b\n", "a b">>, <<"  ", "">>,
     <<" Error during generation. ", "Error during generation.">>}
Texts == {"", "a", "a b"} \cup {p[1] : p \in Stripped}
strip(t) ==
    IF \E p \in Stripped : p[1] = t
    THEN (CHOOSE p \in Stripped : p[1] = t)[2]
    ELSE t

\* what the generation service can do with a request: no answer (connection
\* error, timeout), an answer with an error status, or an answer with status
\* 200 and a body: not JSON, JSON that is no object, an object without the
\* "response" key, an object whose "response" is not a string, an object whose
\* "response" is a text
NoBody == [json |-> "none", key |-> FALSE, value |-> "none", text |-> ""]
Bodies ==
    {[json |-> "invalid", key |-> FALSE, value |-> "none", text |-> ""],
     [json |-> "list", key |-> FALSE, value |-> "none", text |-> ""],
     [json |-> "null", key |-> FALSE, value |-> "none", text |-> ""],
     [json |-> "object", key |-> FALSE, value |-> "none", text |-> ""],
     [json |-> "object", key |-> TRUE, value |-> "null", text |-> ""],
     [json |-> "object", key |-> TRUE, value |-> "number", text |-> ""]}
    \cup {[json |-> "object", key |-> TRUE, value |-> "text", text |-> t] : t \in Texts}
Outcomes ==
    {[kind |-> "connection_error", status |-> 0, body |-> NoBody],
     [kind |-> "timeout", status |-> 0, body |-> NoBody]}
    \cup {[kind |-> "answered", status |-> c, body |-> NoBody] : c \in {404, 500, 503}}
    \cup {[kind |-> "answered", status |-> 200, body |-> b] : b \in Bodies}
NoOutcome == [kind |-> "none", status |-> 0, body |-> NoBody]

\* except Exception: printed, and the fixed string is returned
handler_reraises == [pc |-> "raised", result |-> ""]
handler == [pc |-> "returned", result |-> GENERATION_ERROR]

\* the try block: requests.post raises for a connection error and a timeout,
\* raise_for_status for an error status, response.json() for a body that is
\* not JSON, .get for JSON that is no object, .strip() for a value that is
\* no string; a missing "response" key reads as ""
try_block(o) ==
    IF o.kind # "answered" THEN handler
    ELSE IF o.status >= 400 THEN handler
    ELSE IF o.body.json # "object" THEN handler
    ELSE IF ~o.body.key THEN [pc |-> "returned", result |-> strip("")]
    ELSE IF o.body.value # "text" THEN handler
    ELSE [pc |-> "returned", result |-> strip(o.body.text)]

InitG ==
    /\ g_script \in {"rag_with_input", "rag_mistral_complete"}
    /\ g_docs \in {[i \in 1..n |-> i] : n \in 0..MaxGenDocs}
    /\ g_pc = "called"
    /\ g_result = ""
    /\ g_posts = 0
    /\ g_outcome = NoOutcome

\* if not docs: return the fixed string
GenerateNoDocs ==
    /\ g_pc = "called"
    /\ g_docs = <<>>
    /\ g_result' = NO_DOCS_ANSWER
    /\ g_pc' = "returned"
    /\ UNCHANGED <<g_script, g_docs, g_posts, g_outcome>>
    /\ UNCHANGED restG

\* the context and the prompt are built and the request is posted
GeneratePost ==
    /\ g_pc = "called"
    /\ g_docs # <<>>
    /\ g_posts' = g_posts + 1
    /\ g_pc' = "posted"
    /\ UNCHANGED <<g_script, g_docs, g_result, g_outcome>>
    /\ UNCHANGED restG

\* the rest of the try block, whatever the service does
GenerateEnd ==
    /\ g_pc = "posted"
    /\ \E o \in Outcomes :
          /\ g_outcome' = o
          /\ g_pc' = try_block(o).pc
          /\ g_result' = try_block(o).result
    /\ UNCHANGED <<g_script, g_docs, g_posts>>
    /\ UNCHANGED restG

IdleG ==
    /\ g_script = "rag_with_input"
    /\ g_docs = <<>>
    /\ g_pc = "idle"
    /\ g_result = ""
    /\ g_posts = 0
    /\ g_outcome = NoOutcome

(***************************************************************************)
(* EXTRACTION: extract_value of update_voyage_ai_embeddings.py.            *)
(* A text is the sequence of its characters. A value is a record tagged    *)
(* with its Python type: None, str, int, list or dict.                      *)
(***************************************************************************)
\* a list holds up to MaxList elements
MaxList == 2

PyNone == [t |-> "none"]
PyStr(chars) == [t |-> "str", s |-> chars]
PyInt(n) == [t |-> "int", n |-> n]
PyList(xs) == [t |-> "list", xs |-> xs]
PyDict(kv) == [t |-> "dict", kv |-> kv]
Raised == [t |-> "raise"]

Scalars ==
    {PyNone, PyStr(<<>>), PyStr(<<"x">>), PyStr(<<" ", "x", " ">>), PyInt(0),
     PyInt(5)}

\* the lists whose first element is one of V; the later elements are a text
\* or a number
Lists(V) ==
    {PyList(<<>>)} \cup
    {PyList(<<v>> \o tail) :
        v \in V,
        tail \in UNION {[1..n -> {PyStr(<<"y">>), PyInt(5)}] : n \in 0..(MaxList - 1)}}

\* the dicts with the keys K at most and values of V
Dicts(K, V) == UNION {{PyDict(kv) : kv \in [J -> V]} : J \in SUBSET K}

\* final values, the objects that hold them, and what a document can hold
\* under a key: a final value, an object, or an array of objects
Leaves == Scalars \cup Lists(Scalars)
Objects == Dicts({<<"b">>}, Leaves)
Mids == Leaves \cup Objects \cup Lists(Objects)

\* the documents: objects with the keys "a" and "b", and values that are no
\* objects
Docs ==
    UNION {{PyDict(kv) : kv \in {f \in [J -> Mids] :
                                  <<"b">> \in J => f[<<"b">>] \in Leaves}} :
           J \in SUBSET {<<"a">>, <<"b">>}}
    \cup Scalars \cup Lists(Objects)

Paths ==
    {<<>>, <<"a">>, <<"b">>, <<"a", ".", "b">>, <<"a", ".">>,
     <<"a", ".", "b", ".", "a">>}

\* path.split("."): the parts between the dots; "" gives [""]
RECURSIVE split_from(_, _, _)
split_from(chars, part, parts) ==
    IF chars = <<>> THEN Append(parts, part)
    ELSE IF Head(chars) = "."
         THEN split_from(Tail(chars), <<>>, Append(parts, part))
         ELSE split_from(Tail(chars), Append(part, Head(chars)), parts)

\* sep.join(texts)
RECURSIVE join(_, _)
join(sep, texts) ==
    IF texts = <<>> THEN <<>>
    ELSE IF Len(texts) = 1 THEN texts[1]
    ELSE texts[1] \o sep \o join(sep, Tail(texts))

\* str(n) for the integers 0..9
digits(n) == <<(<<"0", "1", "2", "3", "4", "5", "6", "7", "8", "9">>)[n + 1]>>

\* the keys of a dict in their order
keys(kv) == SelectSeq(<<<<"a">>, <<"b">>>>, LAMBDA k : k \in DOMAIN kv)

\* repr(value)
RECURSIVE repr(_)
repr(v) ==
    CASE v.t = "none" -> <<"N", "o", "n", "e">>
      [] v.t = "int" -> digits(v.n)
      [] v.t = "str" -> <<"'">> \o v.s \o <<"'">>
      [] v.t = "list" ->
            <<"[">> \o join(<<",", " ">>, [i \in 1..Len(v.xs) |-> repr(v.xs[i])])
                    \o <<"]">>
      [] v.t = "dict" ->
            LET ks == keys(v.kv)
            IN  <<"{">> \o join(<<",", " ">>,
                                [i \in 1..Len(ks) |->
                                    <<"'">> \o ks[i] \o <<"'", ":", " ">>
                                            \o repr(v.kv[ks[i]])])
                        \o <<"}">>

\* str(value): a str is itself, anything else its repr
str(v) == IF v.t = "str" THEN v.s ELSE repr(v)

\* the truth value of a value: None, "", 0, [] and {} are false
truthy(v) ==
    CASE v.t = "none" -> FALSE
      [] v.t = "int" -> v.n # 0
      [] v.t = "str" -> v.s # <<>>
      [] v.t = "list" -> v.xs # <<>>
      [] v.t = "dict" -> DOMAIN v.kv # {}

\* text.strip(): leading and trailing whitespace is removed
Whitespace == {" ", "\n", "\t"}

RECURSIVE lstrip(_)
lstrip(chars) ==
    IF chars # <<>> /\ Head(chars) \in Whitespace THEN lstrip(Tail(chars))
    ELSE chars

RECURSIVE rstrip(_)
rstrip(chars) ==
    IF chars # <<>> /\ chars[Len(chars)] \in Whitespace
    THEN rstrip(SubSeq(chars, 1, Len(chars) - 1))
    ELSE chars

text_strip(chars) == rstrip(lstrip(chars))

\* value[0] if value else {}
first_unguarded(xs) == IF xs # <<>> THEN xs[1] ELSE Raised
first_or_empty(xs) == IF xs # <<>> THEN xs[1] ELSE PyDict(<<>>)

\* after the loop: a list is joined with ", ", and a true value is returned
\* as its stripped str, a false one as ""
finish(value) ==
    LET joined == IF value.t = "list"
                  THEN PyStr(join(<<",", " ">>,
                                [i \in 1..Len(value.xs) |-> str(value.xs[i])]))
                  ELSE value
    IN  IF truthy(joined) THEN PyStr(text_strip(str(joined))) ELSE PyStr(<<>>)

\* the loop over the parts: a list is replaced by its first element, and a
\* value that is no dict or lacks the part ends the call with ""
RECURSIVE walk(_, _)
walk(value, parts) ==
    IF parts = <<>> THEN finish(value)
    ELSE LET v == IF value.t = "list" THEN first_or_empty(value.xs) ELSE value
         IN  IF v.t = "raise" THEN Raised
             ELSE IF v.t # "dict" \/ Head(parts) \notin DOMAIN v.kv THEN PyStr(<<>>)
             ELSE walk(v.kv[Head(parts)], Tail(parts))

\* parts = path.split("."), then the loop
extract_value(doc, path) == walk(doc, split_from(path, <<>>, <<>>))

InitX ==
    /\ x_doc \in Docs
    /\ x_path \in Paths
    /\ x_pc = "called"
    /\ x_result = <<>>

\* the call runs to its end
ExtractValue ==
    /\ x_pc = "called"
    /\ LET r == extract_value(x_doc, x_path)
       IN  IF r.t = "raise"
           THEN x_pc' = "raised" /\ x_result' = <<>>
           ELSE x_pc' = "returned" /\ x_result' = r.s
    /\ UNCHANGED <<x_doc, x_path>>
    /\ UNCHANGED restX

IdleX ==
    /\ x_doc = PyNone
    /\ x_path = <<>>
    /\ x_pc = "idle"
    /\ x_result = <<>>

(***************************************************************************)
(* Specifications: one per script; the variables of the other scripts idle.*)
(***************************************************************************)
vars == <<varsB, varsW, varsR, varsM, varsI, varsG, varsX, varsE>>

\* no other client has written
IdleE == raced = {}

\* the backfill scripts
Init == InitB /\ IdleW /\ IdleR /\ IdleM /\ IdleI /\ IdleG /\ IdleX /\ IdleE

Next == NextB

Spec == Init /\ [][Next]_vars

\* a backfill script and another client writing to the same collection, a
\* small one that holds no embedding yet
InitConcurrent ==
    /\ Init
    /\ Len(collection) <= MaxDocs
    /\ \A d \in 1..Len(collection) : collection[d].tgt[1] = Absent

NextConcurrent ==
    \/ Connect
    \/ Query
    \/ ScanDoc
    \/ ScanEnd
    \/ EmbedOK
    \/ EmbedFail
    \/ BulkWriteOK
    \/ BulkWriteFail
    \/ NextPair
    \/ ExternalWrite

SpecConcurrent == InitConcurrent /\ [][NextConcurrent]_vars

\* wait_for_index_ready
NextW ==
    \/ Check
    \/ ListOK
    \/ ListFail
    \/ Sleep
    \/ RemoteChange

InitWait == IdleB /\ InitW /\ IdleR /\ IdleM /\ IdleI /\ IdleG /\ IdleX /\ IdleE

NextWait == NextW

SpecWait == InitWait /\ [][NextWait]_vars

\* retrieve_relevant_docs
NextR ==
    \/ EmbedQuery
    \/ EmbedQueryFail
    \/ SearchOK
    \/ SearchFail
    \/ Merge

InitRetrieve == IdleB /\ IdleW /\ InitR /\ IdleM /\ IdleI /\ IdleG /\ IdleX /\ IdleE

NextRetrieve == NextR

SpecRetrieve == InitRetrieve /\ [][NextRetrieve]_vars

\* the state of a backfill script that has not started, on a collection
ParkedB(n) ==
    /\ BATCH_SIZE \in 1..MaxBatch
    /\ collection \in Collections(n)
    /\ pairIdx = 1
    /\ cursor = <<>>
    /\ total = 0
    /\ batch = <<>>
    /\ count = 0
    /\ attempt = 0
    /\ embeddings = <<>>
    /\ ret = "loop"
    /\ pc = "idle"
    /\ run = 1
    /\ start = <<>>
    /\ scanned = 0
    /\ flushes = <<>>
    /\ embedCalls = 0
    /\ embedPosts = 0
    /\ embedFails = 0
    /\ lastFails = 0
    /\ lastPosts = 0
    /\ writes = <<>>
    /\ written = {}

\* the removal scripts, on small collections of every shape
NextM ==
    \/ RmCount
    \/ RmCountFail
    \/ RmUpdateOK
    \/ RmUpdateFail

InitRemove ==
    /\ script = "single"
    /\ \E n \in 0..MaxDocs :
          /\ ParkedB(n)
          /\ BATCH_SIZE = 1
          /\ dataField \in [1..n -> {"none", "nested", "in_array"}]
    /\ InitM(collection)
    /\ IdleW /\ IdleR /\ IdleI /\ IdleG /\ IdleX /\ IdleE

SpecRemove == InitRemove /\ [][NextM]_vars

\* a removal script followed by the backfill script of the same fields
InitRoundTrip ==
    /\ script \in {"single", "multi"}
    /\ \E n \in 0..MaxDocs :
          /\ ParkedB(n)
          /\ dataField = [d \in 1..n |-> "none"]
    /\ InitM(collection)
    /\ rm_script = (IF script = "single" THEN "remove_fullplot" ELSE "remove_embeddings")
    /\ rm_names = (IF script = "single" THEN <<"fullplot_embedding">> ELSE EMBEDDING_NAMES)
    /\ IdleW /\ IdleR /\ IdleI /\ IdleG /\ IdleX /\ IdleE

NextRoundTrip ==
    \/ RmCount
    \/ RmCountFail
    \/ RmUpdateOK
    \/ RmUpdateFail
    \/ StartBackfill
    \/ Connect
    \/ Query
    \/ ScanDoc
    \/ ScanEnd
    \/ EmbedOK
    \/ EmbedFail
    \/ BulkWriteOK
    \/ BulkWriteFail
    \/ NextPair

SpecRoundTrip == InitRoundTrip /\ [][NextRoundTrip]_vars

\* the index managers
NextI ==
    \/ Startup
    \/ ConnectivityOK
    \/ ConnectivityFail
    \/ MainListOK
    \/ MainListFail
    \/ EnsureListOK
    \/ EnsureListFail
    \/ CreateOK
    \/ CreateFail
    \/ UpdateOK
    \/ UpdateFail
    \/ PollOK
    \/ PollFail
    \/ PollTimeout
    \/ RemoteStatus
    \/ RerunIndex

InitIndex == IdleB /\ IdleW /\ IdleR /\ IdleM /\ InitI /\ IdleG /\ IdleX /\ IdleE

SpecIndex == InitIndex /\ [][NextI]_vars

\* generate_answer
NextG ==
    \/ GenerateNoDocs
    \/ GeneratePost
    \/ GenerateEnd

InitGenerate == IdleB /\ IdleW /\ IdleR /\ IdleM /\ IdleI /\ InitG /\ IdleX /\ IdleE

SpecGenerate == InitGenerate /\ [][NextG]_vars

\* extract_value
InitExtract == IdleB /\ IdleW /\ IdleR /\ IdleM /\ IdleI /\ IdleG /\ InitX /\ IdleE

SpecExtract == InitExtract /\ [][ExtractValue]_vars

(***************************************************************************)
(* Properties of the backfill.                                             *)
(***************************************************************************)
\* pairs the running script processes
Pairs == 1..NumPairs(script)

\* document d had the source field of pair p and no target field of pair p
\* when the run started
HadSourceNoTarget(d, p) == start[d].src[p] # 0 /\ start[d].tgt[p].k = "absent"

AllWritesOK == \A i \in 1..Len(writes) : writes[i]

\* sizes of the flushes of pair p, in order
FlushSizes(p) ==
    LET fs == SelectSeq(flushes, LAMBDA f : f.pair = p)
    IN  [i \in 1..Len(fs) |-> fs[i].size]

\* C1 as stated: after a run that terminates normally, every document that had
\* the source field and lacked the target field when the scan started holds
\* the vector the embedding service returned for it.
C1_AsStated ==
    pc = "done" =>
        \A p \in Pairs : \A d \in 1..Len(collection) :
            HadSourceNoTarget(d, p) => collection[d].tgt[p] = Vector(start[d].src[p])

\* C1 amended: after a run that terminates normally, every document that had
\* the source field and lacked the target field when the scan started, and
\* whose batch's bulk write succeeded, holds the vector the embedding service
\* returned for it; when every bulk write succeeded these are all of them.
C1_Backfilled ==
    pc = "done" =>
        \A p \in Pairs : \A d \in 1..Len(collection) :
            HadSourceNoTarget(d, p) =>
                /\ AllWritesOK => <<p, d>> \in written
                /\ <<p, d>> \in written =>
                      collection[d].tgt[p] = Vector(start[d].src[p])

\* a run ended normally after two documents of one batch were written
C1_Witness ==
    /\ pc = "done"
    /\ \E d, e \in 1..Len(collection) :
          /\ d # e
          /\ HadSourceNoTarget(d, 1) /\ HadSourceNoTarget(e, 1)
          /\ <<1, d>> \in written /\ <<1, e>> \in written
          /\ collection[d].tgt[1] = Vector(start[d].src[1])
          /\ collection[e].tgt[1] = Vector(start[e].src[1])
    /\ \E i \in 1..Len(flushes) : flushes[i].size >= 2

\* C2 as stated: no document that held the target field when the run started
\* is put in a batch, and a second run directly after a fully successful run
\* scans nothing, embeds nothing and writes nothing.
C2_AsStated ==
    /\ \A i \in 1..Len(batch) : start[batch[i].id].tgt[pairIdx].k = "absent"
    /\ run = 2 => scanned = 0 /\ embedPosts = 0 /\ embedCalls = 0 /\ writes = <<>>

\* C2 amended: no document that held a vector in the target field when the
\* run started is put in a batch (the multi-field script does rescan a target
\* that is present but null, [] or {}), and a second run directly after a
\* fully successful run scans nothing, embeds nothing and writes nothing.
C2_Idempotent ==
    /\ \A i \in 1..Len(batch) :
          /\ start[batch[i].id].tgt[pairIdx].k # "vec"
          /\ script = "single" => start[batch[i].id].tgt[pairIdx].k = "absent"
    /\ run = 2 => scanned = 0 /\ embedPosts = 0 /\ embedCalls = 0 /\ writes = <<>>

\* a second run has completed over a collection the first run wrote to
C2_Witness ==
    /\ run = 2
    /\ pc = "done"
    /\ \E d \in 1..Len(collection) :
          /\ collection[d].src[1] # 0
          /\ collection[d].tgt[1] = Vector(collection[d].src[1])

C4_Retry ==
    /\ attempt <= 3
    /\ lastPosts <= 3
    /\ pc = "write" =>
          /\ lastFails < 3
          /\ lastPosts = lastFails + 1
          /\ Len(embeddings) = Len(batch)
          /\ embedPosts - embedFails = Len(flushes)

\* the service failed twice and then succeeded: 3 attempts
C4_Witness == pc = "write" /\ lastFails = 2 /\ lastPosts = 3

\* C5: when all 3 attempts of a call of get_embeddings fail the run is over:
\* the batch is not written and nothing more is scanned, embedded or written.
C5_Fatal ==
    /\ lastFails >= 3 =>
          /\ pc = "failed"
          /\ Len(writes) = Len(flushes) - 1
    /\ pc = "failed" => ~ ENABLED NextB

\* the run failed on a batch while documents were left in the cursor
C5_Witness ==
    /\ pc = "failed"
    /\ lastFails = 3
    /\ cursor # <<>>
    /\ Len(writes) = Len(flushes) - 1

\* C6: a bulk write that fails does not end the run: the run is ended early
\* only by an exhausted embedding call (or by the empty collection the
\* multi-field script refuses), the updated-count of a failed write is left
\* alone, and a pass that completes has embedded and written every batch of
\* its scan, whatever bulk writes failed.
C6_WriteFailureTolerated ==
    /\ pc = "failed" => lastFails >= 3 \/ (script = "multi" /\ Len(collection) = 0)
    /\ pc = "passdone" =>
          /\ Len(FlushSizes(pairIdx)) = CeilDiv(total, BATCH_SIZE)
          /\ Len(writes) = Len(flushes)
          /\ scanned >= total

\* a run completed although a bulk write failed, and a later batch was written
C6_Witness ==
    /\ pc = "done"
    /\ \E i, j \in 1..Len(writes) : i < j /\ ~ writes[i] /\ writes[j]

(***************************************************************************)
(* Properties of wait_for_index_ready.                                     *)
(***************************************************************************)
\* C7: wait_for_index_ready returns False, and does not raise, whenever no
\* listing it made showed the named index READY, the index never being listed
\* included; it returns False only once the timeout has elapsed, and an
\* exception leaves it only when a listing call itself failed.
C7_NeverReady ==
    /\ ~ sawReady => w_result = FALSE
    /\ (w_pc = "returned" /\ ~ sawReady) => now >= timeout
    /\ (w_pc = "returned" /\ w_result = FALSE) => now >= timeout
    /\ w_pc = "raised" => listFailed
    /\ (w_pc \in {"returned", "raised"} /\ ~ listFailed /\ ~ sawReady) =>
          (w_pc = "returned" /\ w_result = FALSE)

\* the call timed out after several polls that never listed the index
C7_Witness ==
    /\ w_pc = "returned"
    /\ w_result = FALSE
    /\ ~ sawReady
    /\ firstSeen = NotListed
    /\ remote = NotListed
    /\ polls >= 2
    /\ sleeps >= 2

\* C8 as stated: for every poll interval and every timeout, a call made while
\* the remote status is READY, and stays READY, returns True after exactly one
\* listing call and no sleep.
C8_AsStated ==
    (w_pc = "returned" /\ steadyReady) =>
        (w_result = TRUE /\ polls = 1 /\ sleeps = 0)

\* C8 amended: for every poll interval and every timeout of at least one
\* tick, the first poll is made, and when it shows the named index READY the
\* call returns True after exactly that one listing call and without
\* sleeping; with timeout 0 the call returns False without any listing call.
C8_ReadyFirstPoll ==
    /\ (w_pc = "returned" /\ timeout >= 1) => polls >= 1
    /\ (w_pc = "returned" /\ firstSeen \in {"READY", "ready"}) =>
          (w_result = TRUE /\ polls = 1 /\ sleeps = 0 /\ now <= MaxListTime)
    /\ (w_pc = "returned" /\ steadyReady /\ timeout >= 1) =>
          (w_result = TRUE /\ polls = 1 /\ sleeps = 0)
    /\ (w_pc = "returned" /\ timeout = 0) => (w_result = FALSE /\ polls = 0)

\* READY on the first poll, with the longest poll interval
C8_Witness ==
    /\ w_pc = "returned"
    /\ w_result = TRUE
    /\ firstSeen = "READY"
    /\ polls = 1
    /\ sleeps = 0
    /\ poll_interval = MaxPoll

(***************************************************************************)
(* Properties of retrieve_relevant_docs.                                   *)
(***************************************************************************)
\* document identities found across all fields
FoundIds == {all_results[k].id : k \in 1..Len(all_results)}

\* C9: in the list returned every document identity appears at most once, and
\* a document that was matched through several fields appears with the
\* highest of the scores it received.
C9_Dedup ==
    r_pc = "returned" =>
        /\ \A i, j \in 1..Len(unique_results) :
              i # j => unique_results[i].id # unique_results[j].id
        /\ \A i \in 1..Len(unique_results) :
              /\ \E k \in 1..Len(all_results) : all_results[k] = unique_results[i]
              /\ \A k \in 1..Len(all_results) :
                    all_results[k].id = unique_results[i].id =>
                        all_results[k].score <= unique_results[i].score

\* a document matched through two fields, the later field scoring higher, is
\* returned once
C9_Witness ==
    /\ r_pc = "returned"
    /\ \E i \in 1..Len(unique_results) : \E k1, k2 \in 1..Len(all_results) :
          /\ k1 < k2
          /\ all_results[k1].id = unique_results[i].id
          /\ all_results[k2].id = unique_results[i].id
          /\ all_results[k1].field # all_results[k2].field
          /\ all_results[k1].score < all_results[k2].score
          /\ unique_results[i] = all_results[k2]

\* C10: the list returned is ordered by non-increasing score and has length
\* min(limit, number of distinct identities found); the query was embedded
\* exactly once and exactly one search was issued per configured field.
C10_RankedTruncated ==
    /\ queryEmbeds <= 1
    /\ Len(searches) <= Len(EMBEDDING_NAMES)
    /\ r_pc = "returned" =>
          /\ \A i \in 1..(Len(unique_results) - 1) :
                unique_results[i].score >= unique_results[i + 1].score
          /\ Len(unique_results) = Min(limit, Cardinality(FoundIds))
          /\ queryEmbeds = 1
          /\ searches = EMBEDDING_NAMES

\* more identities were found than limit allows, and limit were returned
C10_Witness ==
    /\ r_pc = "returned"
    /\ Cardinality(FoundIds) > limit
    /\ Len(unique_results) = limit
    /\ limit >= 2
    /\ unique_results[1].score > unique_results[2].score

(***************************************************************************)
(* Properties of the field removal.                                        *)
(***************************************************************************)
\* the documents of a collection that hold the embedding field of pair p
Holding(coll, p) == {d \in DOMAIN coll : coll[d].tgt[p].k # "absent"}

\* the documents that hold the source field of pair p
WithSource(p) == {d \in DOMAIN before : before[d].src[p] # 0}

\* the removal ended and every update it issued was acknowledged
RemovalOK == rm_pc = "done" /\ \A i \in 1..Len(rm_log) : rm_log[i].ok

\* a successful removal followed by a successful backfill
RoundTripDone == RemovalOK /\ pc = "done" /\ AllWritesOK

Holders(coll, data, name) == {d \in DOMAIN coll : exists(coll, data, d, name)}

\* no document holds the name inside the elements of an array
NoArrayHolder(name) ==
    dotted(name) => \A d \in DOMAIN dataBefore : dataBefore[d] # "in_array"

RunCalls(kind) ==
    SelectSeq(i_calls, LAMBDA c : c.run = i_run /\ c.kind = kind)

\* the fields the index is wanted for
DesiredNames ==
    IF i_script = "manage_fullplot" THEN <<"fullplot_embedding">> ELSE i_fields

\* C12 as stated: a run that found an index under the requested name has
\* issued exactly one update call when its field specs differ from the desired
\* ones, and no create or update call when they are equal.
C12_AsStated ==
    i_pc = "exited" =>
        /\ i_found = "different" =>
              Len(RunCalls("update")) = 1 /\ Len(RunCalls("create")) = 0
        /\ i_found = "same" =>
              Len(RunCalls("update")) = 0 /\ Len(RunCalls("create")) = 0

\* C13: a run that found no index under the requested name issues, as its
\* next call, exactly one create call whose payload holds one field spec per
\* desired field, with its path, the dimensionality and the similarity, and
\* no update call; a second run, for which the remote system lists the index
\* with those field specs, issues no create call.
C13_Create ==
    /\ (i_found = "absent" /\ i_pc # "create") =>
          /\ Len(RunCalls("create")) = 1
          /\ Len(RunCalls("update")) = 0
          /\ LET c == RunCalls("create")[1]
             IN  c.ok =>
                   /\ Len(c.fields) = Len(DesiredNames)
                   /\ \A i \in 1..Len(DesiredNames) :
                         /\ c.fields[i].path = DesiredNames[i]
                         /\ c.fields[i].numDimensions = NUM_DIMENSIONS(i_script)
                         /\ c.fields[i].similarity = i_similarity
    /\ (i_found = "absent" /\ i_pc = "create") =>
          Len(RunCalls("create")) = 0 /\ Len(RunCalls("update")) = 0
    /\ i_run = 2 =>
          /\ i_remote.listed /\ i_remote.fields = desired
          /\ Len(RunCalls("create")) = 0
          /\ i_found # "absent"

\* a first run created the index for two fields and a second run has ended
\* after finding it unchanged
C13_Witness ==
    /\ i_run = 2
    /\ i_pc = "exited"
    /\ i_exit = 0
    /\ i_found = "same"
    /\ Len(i_fields) = 2
    /\ \E i \in 1..Len(i_calls) :
          /\ i_calls[i].run = 1
          /\ i_calls[i].kind = "create"
          /\ i_calls[i].ok
          /\ Len(i_calls[i].fields) = 2
          /\ i_calls[i].fields[2].path = i_fields[2]

\* C14 as stated: with a required configuration value missing (an environment
\* variable, or every embedding field), the script issues no call and ends
\* with a failure.
C14_AsStated ==
    (~i_keys \/ i_fields = <<>>) =>
        /\ i_calls = <<>>
        /\ pollCount = 0
        /\ i_pc = "exited" => i_exit = 1

\* C15 as stated: once an index-management call has failed, no further call
\* is issued and the process has exit code 1.
C15_AsStated ==
    failedCall # "none" =>
        /\ i_pc = "exited"
        /\ i_exit = 1
        /\ \A i \in 1..(Len(i_calls) - 1) : i_calls[i].ok

\* C20 as stated: readiness polls are made only when waiting was asked for,
\* and only while less than the caller's timeout has been spent polling.
C20_AsStated ==
    /\ ~unrequested
    /\ pollCount > 0 => (i_wait /\ lastPollAt < i_timeout)

(***************************************************************************)
(* Properties of the retrieval under failing searches.                     *)
(***************************************************************************)
\* the elements of a sequence
Range(seq) == {seq[i] : i \in 1..Len(seq)}

\* C16: a similarity search that fails is skipped without raising: the call
\* raises only when the query embedding failed, before any search; a search
\* is issued for every configured field in order, whichever failed; and at
\* the merge the collected results are exactly the results of the searches
\* that answered, none of them from a failed field.
C16_SkipFailed ==
    /\ r_pc = "raised" => searches = <<>>
    /\ searches = SubSeq(EMBEDDING_NAMES, 1, Len(searches))
    /\ r_pc \in {"merge", "returned"} => searches = EMBEDDING_NAMES
    /\ \A i \in 1..Len(answered) : Range(answered[i]) \subseteq Range(all_results)
    /\ Len(all_results) = SumSeq([i \in 1..Len(answered) |-> Len(answered[i])])
    /\ \A r \in Range(all_results) : r.field \notin failedFields

\* the search of the first field failed, the search of the second field was
\* still issued and answered, and its results are all in the merge
C16_Witness ==
    /\ r_pc = "returned"
    /\ failedFields = {EMBEDDING_NAMES[1]}
    /\ searches = EMBEDDING_NAMES
    /\ Len(answered) = 1
    /\ Len(answered[1]) = 2
    /\ Range(answered[1]) = Range(all_results)
    /\ \A r \in Range(all_results) : r.field = EMBEDDING_NAMES[2]
    /\ unique_results # <<>>

(***************************************************************************)
(* Properties of generate_answer.                                          *)
(***************************************************************************)
\* the generation call failed: no answer, an error status, or a body that
\* does not carry a text under "response"
FailedGeneration(o) ==
    \/ o.kind \in {"connection_error", "timeout"}
    \/ o.kind = "answered" /\ o.status >= 400
    \/ o.kind = "answered" /\ o.status = 200
          /\ ~(o.body.json = "object" /\ o.body.key /\ o.body.value = "text")

\* the failures the except clause sees: as above, but for a JSON object
\* that lacks the "response" key
RaisingGeneration(o) ==
    /\ FailedGeneration(o)
    /\ ~(o.kind = "answered" /\ o.status = 200 /\ o.body.json = "object"
            /\ ~o.body.key)

\* C17 as stated: generate_answer never raises; after a failed generation
\* call (no answer, error status, malformed response) it returns the fixed
\* error string; with no documents it returns the fixed string without a call.
C17_AsStated ==
    /\ g_pc # "raised"
    /\ (g_pc = "returned" /\ FailedGeneration(g_outcome)) =>
          g_result = GENERATION_ERROR
    /\ (g_pc = "returned" /\ g_docs = <<>>) =>
          g_result = NO_DOCS_ANSWER /\ g_posts = 0

\* C17: generate_answer never raises on a failed generation call; after a
\* connection error, a timeout, an error status, a body that is not JSON or
\* no JSON object, or a "response" value that is no string it returns the
\* fixed error string; a JSON object without the "response" key yields the
\* empty string; a text is returned stripped; with no documents the fixed
\* string is returned without a call, and otherwise exactly one call is made.
C17_Generate ==
    /\ g_pc # "raised"
    /\ (g_pc = "returned" /\ RaisingGeneration(g_outcome)) =>
          g_result = GENERATION_ERROR
    /\ (g_pc = "returned" /\ g_outcome.kind = "answered" /\ g_outcome.status = 200
          /\ g_outcome.body.json = "object" /\ ~g_outcome.body.key) =>
          g_result = ""
    /\ (g_pc = "returned" /\ g_docs = <<>>) =>
          g_result = NO_DOCS_ANSWER /\ g_posts = 0
    /\ (g_pc = "returned" /\ g_docs # <<>>) => g_posts = 1

\* a call with documents whose request timed out has returned the fixed
\* error string
C17_Witness ==
    /\ g_pc = "returned"
    /\ g_docs # <<>>
    /\ g_posts = 1
    /\ g_outcome.kind = "timeout"
    /\ g_result = GENERATION_ERROR

(***************************************************************************)
(* Properties of extract_value.                                            *)
(***************************************************************************)
Missing == [found |-> FALSE, value |-> PyNone]

\* where a dotted path leads in a document: an array met on the way stands
\* for its first element; the hop is missing when the array is empty, the
\* value is no object, or the object lacks the key
RECURSIVE Resolve(_, _)
Resolve(value, parts) ==
    IF parts = <<>> THEN [found |-> TRUE, value |-> value]
    ELSE IF value.t = "list"
         THEN IF value.xs = <<>> THEN Missing
              ELSE IF value.xs[1].t = "dict"
                        /\ Head(parts) \in DOMAIN value.xs[1].kv
                   THEN Resolve(value.xs[1].kv[Head(parts)], Tail(parts))
                   ELSE Missing
         ELSE IF value.t = "dict" /\ Head(parts) \in DOMAIN value.kv
              THEN Resolve(value.kv[Head(parts)], Tail(parts))
              ELSE Missing

\* C19: extract_value never raises, whatever the document; it returns ""
\* whenever a hop of the path is missing (key absent, empty array, value that
\* is no object before the last part), an array met at a hop standing for
\* its first element; and where the path leads to a text it returns that
\* text stripped.
C19_Extract ==
    /\ x_pc # "raised"
    /\ x_pc = "returned" =>
          LET r == Resolve(x_doc, split_from(x_path, <<>>, <<>>))
          IN  /\ ~r.found => x_result = <<>>
              /\ (r.found /\ r.value.t = "str") => x_result = text_strip(r.value.s)
              /\ (r.found /\ r.value.t = "int" /\ r.value.n # 0) =>
                    x_result = digits(r.value.n)

\* the path a.b through a document whose "a" is an array of two objects: the
\* text of the first object is returned, stripped
C19_Witness ==
    /\ x_pc = "returned"
    /\ x_path = <<"a", ".", "b">>
    /\ x_doc.t = "dict"
    /\ <<"a">> \in DOMAIN x_doc.kv
    /\ x_doc.kv[<<"a">>].t = "list"
    /\ Len(x_doc.kv[<<"a">>].xs) = 2
    /\ x_doc.kv[<<"a">>].xs[1] = PyDict([k \in {<<"b">>} |-> PyStr(<<" ", "x", " ">>)])
    /\ x_result = <<"x">>

\* C21: a target that another client set between the scan's read of a
\* document and the successful bulk write of its batch is overwritten: after
\* the write the document holds the embedding of its own text computed by the
\* backfill, not the value the other client stored (the last write wins).
C21_LastWriteWins ==
    \A r \in raced :
        <<r[1], r[2]>> \in written =>
            /\ collection[r[2]].tgt[r[1]] = Vector(start[r[2]].src[r[1]])
            /\ collection[r[2]].tgt[r[1]] # r[3]

C21_Witness ==
    \E r \in raced :
        /\ <<r[1], r[2]>> \in written
        /\ r[3] = Vector(0)
        /\ collection[r[2]].tgt[r[1]] = Vector(start[r[2]].src[r[1]])

\* the pass of the current pair has set its count and has not handed over to
\* the next pair
InPass == pc \in {"scan", "embed", "write", "passdone", "done", "failed"}

\* the pass of the current pair is over: completed, or ended by an exception
PassEnded == pc \in {"passdone", "done", "failed"}

\* outcomes of the bulk writes of the current pair: the i-th bulk write of a
\* run is the write of its i-th flush
PassWrites == {i \in 1..Len(writes) : flushes[i].pair = pairIdx}

\* sizes of the batches of the current pair whose bulk write succeeded, summed
RECURSIVE SumWritten(_)
SumWritten(n) ==
    IF n = 0 THEN 0
    ELSE SumWritten(n - 1)
         + (IF n \in PassWrites /\ writes[n] THEN flushes[n].size ELSE 0)

\* documents the scan of the current pair has read from its cursor
ScannedInPass == total - Len(cursor)

\* C22: during the backfill of a (source, target) pair the updated-count
\* equals the sum of the sizes of the batches whose bulk write succeeded so
\* far and never exceeds the number of documents scanned; when the pass has
\* ended and one of its bulk writes failed it is strictly less than the number
\* scanned; and no step of the pass decreases it.
C22_Count ==
    /\ [](InPass =>
            /\ count = SumWritten(Len(writes))
            /\ count <= ScannedInPass
            /\ ScannedInPass <= scanned
            /\ (PassEnded /\ (\E i \in PassWrites : ~writes[i])) => count < ScannedInPass)
    /\ [][(InPass /\ pc # "done") => count' >= count]_vars

C22_Witness ==
    /\ pc = "done"
    /\ \E i \in PassWrites : ~writes[i]
    /\ \E i \in PassWrites : writes[i]
    /\ count > 0
    /\ count < ScannedInPass

\* _ids of the documents of the batch being flushed
BatchIds == {batch[i].id : i \in 1..Len(batch)}

\* position of document d in the batch
PositionOf(d) == CHOOSE i \in 1..Len(batch) : batch[i].id = d

\* the step leaves the source fields of document d and its target fields of
\* the other pairs as they were
FrameOf(d) ==
    /\ collection'[d].src = collection[d].src
    /\ \A q \in AllPairs : q # pairIdx => collection'[d].tgt[q] = collection[d].tgt[q]

\* the step stores in document d the embedding at its position in the
\* response, the model name and the timestamp
Receives(d) ==
    /\ PositionOf(d) <= Len(embeddings)
    /\ collection'[d].tgt[pairIdx] = embeddings[PositionOf(d)]
    /\ collection'[d].model = MODEL_NAME
    /\ collection'[d].ts = 1

\* C23 as stated: a flush changes in each document of the batch nothing but
\* the target field, the model name and the timestamp, touches no document
\* outside the batch, and every document of the batch receives the embedding
\* at its own position in the response.
C23_AsStated ==
    [][pc = "write" =>
          /\ Len(collection') = Len(collection)
          /\ \A d \in 1..Len(collection) :
                IF d \in BatchIds
                THEN FrameOf(d) /\ Receives(d)
                ELSE collection'[d] = collection[d]]_vars

\* C23 amended: a flush changes in each document of the batch nothing but the
\* target field, the model name and the timestamp, and touches no document
\* outside the batch; a document of the batch that the bulk write updates
\* receives the embedding at its own position in the response, which is every
\* document of the batch when the bulk write succeeds, and a document that a
\* failed bulk write did not reach is left as it was.
C23_Flush ==
    [][pc = "write" =>
          /\ Len(collection') = Len(collection)
          /\ \A d \in 1..Len(collection) :
                IF d \in BatchIds
                THEN /\ FrameOf(d)
                     /\ Receives(d) \/ collection'[d] = collection[d]
                     /\ writes'[Len(writes')] => Receives(d)
                ELSE collection'[d] = collection[d]]_vars

\* a flush of two documents succeeded: both hold the embedding of their own
\* text and the new model name with their source unchanged, and a document
\* that was not in their batch is as it was when the run started
C23_Witness ==
    /\ \E d, e \in 1..Len(collection) :
          /\ d # e
          /\ \E i \in 1..Len(flushes) : flushes[i].size >= 2 /\ i <= Len(writes) /\ writes[i]
          /\ \A x \in {d, e} :
                /\ <<1, x>> \in written
                /\ collection[x].tgt[1] = Vector(start[x].src[1])
                /\ collection[x].src = start[x].src
                /\ collection[x].model = MODEL_NAME
                /\ collection[x].ts = 1
    /\ \E o \in 1..Len(collection) :
          /\ \A p \in Pairs : <<p, o>> \notin written
          /\ collection[o] = start[o]

====
